---- MODULE Spec2Model ----
(***************************************************************************)
(* NewsPassID: the backend ingestion handler (lambda/src/index.ts, in its  *)
(* TypeScript variant `handler` and its JavaScript variant                 *)
(* `exports.handler`) as a state machine over an object store, and the     *)
(* browser client (NewsPassIDImpl.setID, the consent resolver, the storage *)
(* helpers, the async loader and its call-buffering stub) as a state        *)
(* machine over the page.                                                  *)
(*                                                                         *)
(* A string is a sequence of lexemes ("publisher", "-", "1", "/", ...):    *)
(* concatenation is \o, and the lexemes are chosen so that no lexeme is a  *)
(* concatenation of others, hence two strings are equal exactly when       *)
(* their lexeme sequences are.  A number is a natural; a value that may be *)
(* NaN is a set holding at most one number.  An optional field of a JSON   *)
(* object is a record [has, v].                                            *)
(***************************************************************************)
EXTENDS Integers, Sequences, FiniteSets, TLC

VARIABLES
    storage,      \* the bucket: storage key -> object body (a function)
    inv,          \* per invocation slot: the handler's position and locals
    localStorage, \* the browser's store: whether it can be accessed, and the item
                  \* under config.storageKey
    impl,         \* the NewsPassIDImpl instance: its variant, config and fields
    window,       \* the page: window.__gpp, document.cookie, the data layer, the
                  \* ad-server targeting and the segment meta tags of the head
    calls,        \* per setID call: its position, arguments and locals
    loader,       \* the async loader: its position, window.newspassid (the stub or
                  \* the real client), window.newspassid_q, the 50 ms timer
    page          \* what the page's script holds: the last results of getID() and
                  \* getSegments()

serverVars == <<storage, inv>>

clientVars == <<localStorage, impl, window, calls, loader, page>>

vars == <<storage, inv, localStorage, impl, window, calls, loader, page>>

---------------------------------------------------------------------------
(* Bounds of the model *)

\* client-supplied timestamps range over 0..MaxTs (0 is falsy)
MaxTs == 2
\* the handler's clock, Date.now(), ranges over 1..MaxNow
MaxNow == 2
\* numeric expiry cells of the segment source range over 0..MaxExpiry
MaxExpiry == 3
\* a segment source table has at most MaxRows data rows
MaxRows == 2

---------------------------------------------------------------------------
(* Strings *)

\* String(n), `${n}`: the decimal numeral of a number, one lexeme
NumStr(n) == <<ToString(n)>>

\* the numbers a numeral lexeme may denote in this model
Numerals == 0 .. (MaxExpiry + MaxTs + MaxNow + 10)

IsDigits(lex) == \E n \in Numerals : ToString(n) = lex

DigitsVal(lex) == CHOOSE n \in Numerals : ToString(n) = lex

\* Array.prototype.join
RECURSIVE Join(_, _)
Join(parts, sep) ==
    IF parts = <<>> THEN <<>>
    ELSE IF Len(parts) = 1 THEN parts[1]
    ELSE parts[1] \o sep \o Join(Tail(parts), sep)

\* String.prototype.split on a one-lexeme separator
RECURSIVE Split(_, _)
Split(s, sep) ==
    IF \E i \in 1..Len(s) : s[i] = sep
    THEN LET i == CHOOSE j \in 1..Len(s) :
                      s[j] = sep /\ \A k \in 1..(j - 1) : s[k] # sep
         IN  <<SubSeq(s, 1, i - 1)>> \o Split(SubSeq(s, i + 1, Len(s)), sep)
    ELSE <<s>>

\* an optional field: absent, or present with value v
Absent(dflt) == [has |-> FALSE, v |-> dflt]
Present(val) == [has |-> TRUE, v |-> val]

\* JavaScript truthiness of an optional string field (undefined and '' are falsy)
TruthyStr(f) == f.has /\ f.v # <<>>
\* JavaScript truthiness of an optional number field (undefined and 0 are falsy)
TruthyNum(f) == f.has /\ f.v # 0

---------------------------------------------------------------------------
(* Configuration *)

\* process.env.ID_FOLDER || 'newspassid'
ID_FOLDER == <<"newspassid">>

\* the value of an element that is undefined in an array of strings
UNDEFINED == <<"undefined">>

---------------------------------------------------------------------------
(* Pure functions of the handler *)

Schemes == {"https://", "http://"}

\* new URL(url).hostname: the lexemes between the scheme and the first "/";
\* the empty set when the URL constructor throws
Hostname(url) ==
    IF Len(url) >= 2 /\ url[1] \in Schemes /\ url[2] # "/"
    THEN {Split(Tail(url), "/")[1]}
    ELSE {}

\* getDomainFromUrl (both variants): hostname without a leading "www.",
\* 'unknown' when the URL does not parse
getDomainFromUrl(url) ==
    IF Hostname(url) = {} THEN <<"unknown">>
    ELSE LET domain == CHOOSE h \in Hostname(url) : TRUE
         IN  IF domain # <<>> /\ domain[1] = "www." THEN Tail(domain) ELSE domain

\* validateId with the pattern /^publisher-/ (the digits left unchecked)
validateId_PrefixOnly(id) ==
    /\ Len(id) >= 3
    /\ id[1] = "publisher"
    /\ id[2] = "-"

\* validateId (TypeScript variant): /^publisher-\d+$/
validateId(id) ==
    /\ Len(id) >= 3
    /\ id[1] = "publisher"
    /\ id[2] = "-"
    /\ \A i \in 3..Len(id) : IsDigits(id[i])

\* utils.isValidId (JavaScript variant): exactly two non-empty parts around "-"
isValidId(id) ==
    /\ id # <<>>
    /\ LET parts == Split(id, "-")
       IN  Len(parts) = 2 /\ Len(parts[1]) > 0 /\ Len(parts[2]) > 0

\* utils.getNamespaceFromId: id.split('-')[0]
getNamespaceFromId(id) == Split(id, "-")[1]

\* utils.getCorsHeaders: the allowed origin is event.headers?.origin || '*'
\* (the other three headers are the same for every response)
getCorsHeaders(origin) ==
    [allowOrigin |-> IF TruthyStr(origin) THEN origin.v ELSE <<"*">>,
     allowMethods |-> "POST,OPTIONS"]

\* the responses
Response(statusCode, headers, body) ==
    [statusCode |-> statusCode, headers |-> headers, body |-> body]

NoResponse == [statusCode |-> 0]

ErrorBody(message) == [kind |-> "error", success |-> FALSE, error |-> message]

SuccessBody(id, segments) ==
    [kind |-> "success", success |-> TRUE, id |-> id, segments |-> segments]

EmptyBody == [kind |-> "empty"]

MissingFieldsMsg ==
    "Missing required fields. All requests must include id, timestamp, url, and consentString."

\* utils.errorResponse (JavaScript variant): CORS headers of the empty event {}
errorResponse(statusCode, message) ==
    Response(statusCode, getCorsHeaders(Absent(<<>>)), ErrorBody(message))

---------------------------------------------------------------------------
(* The segment source *)

\* what s3.getObject on the segment source yields: a rejection (with its
\* error code), a response without Body, or a Body holding a table: a header of
\* column names and data rows of cells (a blank line is the row <<"">>)
SrcReject(code) == [kind |-> "reject", code |-> code, header |-> <<>>, rows |-> <<>>]
SrcNoBody == [kind |-> "nobody", code |-> "", header |-> <<>>, rows |-> <<>>]
SrcTable(header, rows) == [kind |-> "table", code |-> "", header |-> header, rows |-> rows]

\* headers.indexOf(name), 1-based; 0 when the column is not there
IndexOf(header, name) ==
    IF \E i \in 1..Len(header) : header[i] = name
    THEN CHOOSE i \in 1..Len(header) :
             header[i] = name /\ \A k \in 1..(i - 1) : header[k] # name
    ELSE 0

\* the cell of a row at a column index: undefined outside the row
Cell(row, idx) ==
    IF idx >= 1 /\ idx <= Len(row) THEN Present(row[idx]) ELSE Absent(<<>>)

IsBlankLine(row) == row = << <<>> >>

\* ToNumber of a cell, as applied by `record.expire_timestamp > now`:
\* '' is 0, a numeral is its number, anything else (and undefined) is NaN
ToNumber(cell) ==
    IF ~cell.has THEN {}
    ELSE IF cell.v = <<>> THEN {0}
    ELSE IF Len(cell.v) = 1 /\ IsDigits(cell.v[1]) THEN {DigitsVal(cell.v[1])}
    ELSE {}

\* parseInt(cell, 10): the number of the leading numeral, whatever follows it;
\* NaN when the cell does not start with a digit (cells hold at most one
\* numeral lexeme in front)
parseInt(cell) ==
    IF ~cell.has \/ cell.v = <<>> THEN {}
    ELSE IF IsDigits(cell.v[1]) THEN {DigitsVal(cell.v[1])}
    ELSE {}

\* the segment name pushed or mapped from a cell
NameOf(cell) == IF cell.has THEN cell.v ELSE UNDEFINED

\* csv-parse with columns: true, skip_empty_lines: true: blank lines are
\* dropped, and a record whose number of fields differs from the header's throws
RECURSIVE DropBlank(_)
DropBlank(rows) ==
    IF rows = <<>> THEN <<>>
    ELSE IF IsBlankLine(rows[1]) THEN DropBlank(Tail(rows))
    ELSE <<rows[1]>> \o DropBlank(Tail(rows))

ParseThrows(src) ==
    \E i \in 1..Len(DropBlank(src.rows)) :
        Len(DropBlank(src.rows)[i]) # Len(src.header)

\* records.filter(record => record.expire_timestamp > now).map(record => record.segments)
RECURSIVE FilterMapTS(_, _, _, _)
FilterMapTS(rows, si, ei, now) ==
    IF rows = <<>> THEN <<>>
    ELSE LET rest == FilterMapTS(Tail(rows), si, ei, now)
         IN  IF \E t \in ToNumber(Cell(rows[1], ei)) : t > now
             THEN <<NameOf(Cell(rows[1], si))>> \o rest
             ELSE rest

\* the loop of the JavaScript getValidSegments over lines[1..]
RECURSIVE FilterMapJS(_, _, _, _)
FilterMapJS(rows, si, ei, now) ==
    IF rows = <<>> THEN <<>>
    ELSE LET rest == FilterMapJS(Tail(rows), si, ei, now)
         IN  IF IsBlankLine(rows[1]) THEN rest
             ELSE IF \E t \in parseInt(Cell(rows[1], ei)) : t > now
             THEN <<NameOf(Cell(rows[1], si))>> \o rest
             ELSE rest

\* getValidSegments of the TypeScript variant with a catch that returns []
getValidSegmentsTS_Swallow(src, now) ==
    IF src.kind = "reject" THEN [ok |-> TRUE, segments |-> <<>>]
    ELSE IF src.kind = "nobody" THEN [ok |-> TRUE, segments |-> <<>>]
    ELSE IF ParseThrows(src) THEN [ok |-> TRUE, segments |-> <<>>]
    ELSE [ok |-> TRUE,
          segments |-> FilterMapTS(DropBlank(src.rows),
                                   IndexOf(src.header, <<"segments">>),
                                   IndexOf(src.header, <<"expire_timestamp">>), now)]

\* getValidSegments (TypeScript variant): [ok |-> FALSE] when it re-throws
getValidSegmentsTS(src, now) ==
    IF src.kind = "reject" THEN [ok |-> FALSE, segments |-> <<>>]
    ELSE IF src.kind = "nobody" THEN [ok |-> TRUE, segments |-> <<>>]
    ELSE IF ParseThrows(src) THEN [ok |-> FALSE, segments |-> <<>>]
    ELSE [ok |-> TRUE,
          segments |-> FilterMapTS(DropBlank(src.rows),
                                   IndexOf(src.header, <<"segments">>),
                                   IndexOf(src.header, <<"expire_timestamp">>), now)]

\* getValidSegments (JavaScript variant): every error is caught and yields []
getValidSegmentsJS(src, now) ==
    IF src.kind = "reject" THEN [ok |-> TRUE, segments |-> <<>>]
    ELSE IF src.kind = "nobody" THEN [ok |-> TRUE, segments |-> <<>>]
    ELSE IF IndexOf(src.header, <<"segments">>) = 0
            \/ IndexOf(src.header, <<"expire_timestamp">>) = 0
         THEN [ok |-> TRUE, segments |-> <<>>]
    ELSE [ok |-> TRUE,
          segments |-> FilterMapJS(src.rows,
                                   IndexOf(src.header, <<"segments">>),
                                   IndexOf(src.header, <<"expire_timestamp">>), now)]

\* Array.prototype.join renders an undefined element as ''
JoinArr(arr, sep) ==
    Join([i \in 1..Len(arr) |-> IF arr[i] = UNDEFINED THEN <<>> ELSE arr[i]], sep)

---------------------------------------------------------------------------
(* Requests *)

\* event.body: null (or ''), a text JSON.parse throws on, the JSON text
\* `null`, or a JSON object with optional fields
BodyOf(kind, id, timestamp, url, consentString, previousId, publisherSegments) ==
    [kind |-> kind, id |-> id, timestamp |-> timestamp, url |-> url,
     consentString |-> consentString, previousId |-> previousId,
     publisherSegments |-> publisherSegments]

BodyNot(kind) ==
    BodyOf(kind, Absent(<<>>), Absent(0), Absent(<<>>), Absent(<<>>),
           Absent(<<>>), Absent(<<>>))

EventOf(httpMethod, origin, body) ==
    [httpMethod |-> httpMethod, origin |-> origin, body |-> body]

NoEvent == EventOf("", Absent(<<>>), BodyNot("none"))

NoSource == [kind |-> "none", code |-> "", header |-> <<>>, rows |-> <<>>]

\* the storage calls an invocation has completed, in order
GetEntry(key, ok) ==
    [op |-> "get", site |-> "segments", key |-> key, ok |-> ok,
     body |-> [header |-> "", row |-> <<>>]]
PutEntry(site, key, body, ok) ==
    [op |-> "put", site |-> site, key |-> key, ok |-> ok, body |-> body]

IdleInv ==
    [pc |-> "idle", variant |-> "", event |-> NoEvent, domain |-> <<>>,
     src |-> NoSource, now |-> 0, validSegments |-> <<>>, log |-> <<>>,
     response |-> NoResponse]

\* s3.putObject resolved: the key now holds the body (an overwrite if it was there)
PutObject(store, key, body) == (key :> body) @@ store

---------------------------------------------------------------------------
(* Storage keys and object bodies *)

SegmentsFileTS == ID_FOLDER \o <<"/", "segments", ".csv">>

SegmentsKeyJS(namespace, domain, id) ==
    ID_FOLDER \o <<"/">> \o namespace \o <<"/">> \o domain \o <<"/">> \o id
        \o <<"/", "segments", ".csv">>

\* the event key without its domain component
EventKeyTS_NoDomain(data, domain) ==
    ID_FOLDER \o <<"/", "publisher", "/">> \o data.id.v
        \o <<"/">> \o NumStr(data.timestamp.v) \o <<".csv">>

\* the event key without its timestamp component
EventKeyTS_NoTimestamp(data, domain) ==
    ID_FOLDER \o <<"/", "publisher", "/">> \o domain \o <<"/">> \o data.id.v
        \o <<".csv">>

EventKeyTS(data, domain) ==
    ID_FOLDER \o <<"/", "publisher", "/">> \o domain \o <<"/">> \o data.id.v
        \o <<"/">> \o NumStr(data.timestamp.v) \o <<".csv">>

EventKeyJS(data, domain) ==
    ID_FOLDER \o <<"/">> \o getNamespaceFromId(data.id.v) \o <<"/">> \o domain
        \o <<"/">> \o data.id.v \o <<"/">> \o NumStr(data.timestamp.v) \o <<".csv">>

MappingKeyTS(data) ==
    ID_FOLDER \o <<"/", "publisher", "/", "mappings", "/">> \o data.previousId.v
        \o <<".csv">>

MappingKeyJS(data) ==
    ID_FOLDER \o <<"/">> \o getNamespaceFromId(data.id.v) \o <<"/", "mappings", "/">>
        \o data.previousId.v \o <<".csv">>

EventHeader == "id,timestamp,url,consentString,previousId,segments,publisherSegments"

MappingHeader == "oldId,newId,timestamp"

\* `${data.previousId || ''}`
OrEmpty(f) == IF TruthyStr(f) THEN f.v ELSE <<>>

\* the event row of the TypeScript variant: segments joined by ',',
\* publisherSegments by '|'
CsvContentTS(data, validSegments) ==
    [header |-> EventHeader,
     row |-> <<data.id.v, NumStr(data.timestamp.v), data.url.v, data.consentString.v,
               OrEmpty(data.previousId), JoinArr(validSegments, <<",">>),
               IF data.publisherSegments.has
               THEN JoinArr(data.publisherSegments.v, <<"|">>) ELSE <<>> >>]

\* the event row of the JavaScript variant: both lists joined by '|'
CsvContentJS(data, validSegments) ==
    [header |-> EventHeader,
     row |-> <<data.id.v, NumStr(data.timestamp.v), data.url.v, data.consentString.v,
               OrEmpty(data.previousId), JoinArr(validSegments, <<"|">>),
               IF data.publisherSegments.has
               THEN JoinArr(data.publisherSegments.v, <<"|">>) ELSE <<>> >>]

MappingContent(data) ==
    [header |-> MappingHeader,
     row |-> <<data.previousId.v, data.id.v, NumStr(data.timestamp.v)>>]

---------------------------------------------------------------------------
(* The TypeScript handler, one action per stretch of code between awaits *)

\* the catch block: 500 with the event's CORS headers
InternalErrorTS(event) ==
    Response(500, getCorsHeaders(event.origin), ErrorBody("Internal server error"))

\* the required-fields test without consentString
MissingRequired_NoConsent(data) ==
    \/ ~TruthyStr(data.id)
    \/ ~TruthyNum(data.timestamp)
    \/ ~TruthyStr(data.url)

\* if (!data.id || !data.timestamp || !data.url || !data.consentString)
MissingRequired(data) ==
    \/ ~TruthyStr(data.id)
    \/ ~TruthyNum(data.timestamp)
    \/ ~TruthyStr(data.url)
    \/ ~TruthyStr(data.consentString)

\* if (data.previousId): the guard of the mapping write
WantsMapping(data) == TruthyStr(data.previousId)

\* from entry to the await of s3.getObject: preflight, parsing, validation
handlerTS_Start(r, event) ==
    /\ inv[r].pc = "idle"
    /\ LET data == event.body
           Respond(resp) ==
               inv' = [inv EXCEPT ![r] = [@ EXCEPT !.pc = "done", !.variant = "ts",
                                                   !.event = event, !.response = resp]]
       IN  IF event.httpMethod = "OPTIONS"
           THEN Respond(Response(200, getCorsHeaders(event.origin), EmptyBody))
           ELSE IF data.kind # "object"
           THEN Respond(InternalErrorTS(event))
           ELSE IF MissingRequired(data)
           THEN Respond(Response(400, getCorsHeaders(event.origin),
                                 ErrorBody(MissingFieldsMsg)))
           ELSE IF ~validateId(data.id.v)
           THEN Respond(Response(400, getCorsHeaders(event.origin),
                                 ErrorBody("Invalid ID format")))
           ELSE inv' = [inv EXCEPT ![r] =
                           [@ EXCEPT !.pc = "getSegments", !.variant = "ts",
                                     !.event = event,
                                     !.domain = getDomainFromUrl(data.url.v)]]
    /\ UNCHANGED storage

\* the expiry filter run against the request's timestamp field instead of the
\* handler's clock
handlerTS_Segments_ClientClock(r, src, now) ==
    /\ inv[r].pc = "getSegments"
    /\ inv[r].variant = "ts"
    /\ LET res == getValidSegmentsTS(src, inv[r].event.body.timestamp.v)
           entry == GetEntry(SegmentsFileTS, src.kind # "reject")
       IN  IF res.ok
           THEN inv' = [inv EXCEPT ![r] =
                           [@ EXCEPT !.pc = "putEvent", !.src = src,
                                     !.now = IF src.kind = "table" THEN now ELSE 0,
                                     !.validSegments = res.segments,
                                     !.log = Append(@, entry)]]
           ELSE inv' = [inv EXCEPT ![r] =
                           [@ EXCEPT !.pc = "done", !.src = src,
                                     !.log = Append(@, entry),
                                     !.response = InternalErrorTS(inv[r].event)]]
    /\ UNCHANGED storage

\* s3.getObject settles with src; getValidSegments filters at time now; then the
\* event row is built and s3.putObject issued
handlerTS_Segments(r, src, now) ==
    /\ inv[r].pc = "getSegments"
    /\ inv[r].variant = "ts"
    /\ LET res == getValidSegmentsTS(src, now)
           entry == GetEntry(SegmentsFileTS, src.kind # "reject")
       IN  IF res.ok
           THEN inv' = [inv EXCEPT ![r] =
                           [@ EXCEPT !.pc = "putEvent", !.src = src,
                                     !.now = IF src.kind = "table" THEN now ELSE 0,
                                     !.validSegments = res.segments,
                                     !.log = Append(@, entry)]]
           ELSE inv' = [inv EXCEPT ![r] =
                           [@ EXCEPT !.pc = "done", !.src = src,
                                     !.log = Append(@, entry),
                                     !.response = InternalErrorTS(inv[r].event)]]
    /\ UNCHANGED storage

\* the event write not awaited: its rejection goes unnoticed
handlerTS_PutEvent_NotAwaited(r, ok) ==
    /\ inv[r].pc = "putEvent"
    /\ inv[r].variant = "ts"
    /\ LET data == inv[r].event.body
           key == EventKeyTS(data, inv[r].domain)
           body == CsvContentTS(data, inv[r].validSegments)
           entry == PutEntry("event", key, body, ok)
       IN  /\ storage' = IF ok THEN PutObject(storage, key, body) ELSE storage
           /\ IF WantsMapping(data)
              THEN inv' = [inv EXCEPT ![r] =
                              [@ EXCEPT !.pc = "putMapping", !.log = Append(@, entry)]]
              ELSE inv' = [inv EXCEPT ![r] =
                              [@ EXCEPT !.pc = "done", !.log = Append(@, entry),
                                        !.response =
                                            Response(200,
                                                getCorsHeaders(inv[r].event.origin),
                                                SuccessBody(data.id.v,
                                                    inv[r].validSegments))]]

\* s3.putObject of the event record settles; then the mapping write is issued
\* if (data.previousId), else the 200 is returned
handlerTS_PutEvent(r, ok) ==
    /\ inv[r].pc = "putEvent"
    /\ inv[r].variant = "ts"
    /\ LET data == inv[r].event.body
           key == EventKeyTS(data, inv[r].domain)
           body == CsvContentTS(data, inv[r].validSegments)
           entry == PutEntry("event", key, body, ok)
       IN  IF ~ok
           THEN /\ inv' = [inv EXCEPT ![r] =
                              [@ EXCEPT !.pc = "done", !.log = Append(@, entry),
                                        !.response = InternalErrorTS(inv[r].event)]]
                /\ UNCHANGED storage
           ELSE /\ storage' = PutObject(storage, key, body)
                /\ IF WantsMapping(data)
                   THEN inv' = [inv EXCEPT ![r] =
                                   [@ EXCEPT !.pc = "putMapping",
                                             !.log = Append(@, entry)]]
                   ELSE inv' = [inv EXCEPT ![r] =
                                   [@ EXCEPT !.pc = "done", !.log = Append(@, entry),
                                             !.response =
                                                 Response(200,
                                                     getCorsHeaders(inv[r].event.origin),
                                                     SuccessBody(data.id.v,
                                                         inv[r].validSegments))]]

\* s3.putObject of the mapping record settles (awaited inside the same try)
handlerTS_PutMapping(r, ok) ==
    /\ inv[r].pc = "putMapping"
    /\ inv[r].variant = "ts"
    /\ LET data == inv[r].event.body
           key == MappingKeyTS(data)
           body == MappingContent(data)
           entry == PutEntry("mapping", key, body, ok)
       IN  IF ~ok
           THEN /\ inv' = [inv EXCEPT ![r] =
                              [@ EXCEPT !.pc = "done", !.log = Append(@, entry),
                                        !.response = InternalErrorTS(inv[r].event)]]
                /\ UNCHANGED storage
           ELSE /\ storage' = PutObject(storage, key, body)
                /\ inv' = [inv EXCEPT ![r] =
                              [@ EXCEPT !.pc = "done", !.log = Append(@, entry),
                                        !.response =
                                            Response(200,
                                                getCorsHeaders(inv[r].event.origin),
                                                SuccessBody(data.id.v,
                                                    inv[r].validSegments))]]

---------------------------------------------------------------------------
(* The JavaScript handler (exports.handler), likewise *)

\* from entry to the await of s3.getObject: parsing and validation (this
\* variant has no preflight branch, and JSON.parse(null) is null, whose .id throws)
handlerJS_Start(r, event) ==
    /\ inv[r].pc = "idle"
    /\ LET body == event.body
           Respond(resp) ==
               inv' = [inv EXCEPT ![r] = [@ EXCEPT !.pc = "done", !.variant = "js",
                                                   !.event = event, !.response = resp]]
       IN  IF body.kind # "object"
           THEN Respond(errorResponse(500, "Internal server error"))
           ELSE IF MissingRequired(body)
           THEN Respond(errorResponse(400, MissingFieldsMsg))
           ELSE IF ~isValidId(body.id.v)
           THEN Respond(errorResponse(400, "Invalid ID format"))
           ELSE inv' = [inv EXCEPT ![r] =
                           [@ EXCEPT !.pc = "getSegments", !.variant = "js",
                                     !.event = event,
                                     !.domain = getDomainFromUrl(body.url.v)]]
    /\ UNCHANGED storage

\* the segments step with the publisher's declared segments appended to the
\* list that was read
handlerJS_Segments_Merged(r, src, now) ==
    /\ inv[r].pc = "getSegments"
    /\ inv[r].variant = "js"
    /\ LET body == inv[r].event.body
           res == getValidSegmentsJS(src, now)
           entry == GetEntry(SegmentsKeyJS(getNamespaceFromId(body.id.v),
                                           inv[r].domain, body.id.v),
                             src.kind # "reject")
       IN  inv' = [inv EXCEPT ![r] =
                      [@ EXCEPT !.pc = "putEvent", !.src = src,
                                !.now = IF src.kind = "table" THEN now ELSE 0,
                                !.validSegments =
                                    res.segments \o (IF body.publisherSegments.has
                                                     THEN body.publisherSegments.v
                                                     ELSE <<>>),
                                !.log = Append(@, entry)]]
    /\ UNCHANGED storage

\* s3.getObject settles with src; getValidSegments never throws; then the event
\* row is built and s3.putObject issued
handlerJS_Segments(r, src, now) ==
    /\ inv[r].pc = "getSegments"
    /\ inv[r].variant = "js"
    /\ LET body == inv[r].event.body
           res == getValidSegmentsJS(src, now)
           entry == GetEntry(SegmentsKeyJS(getNamespaceFromId(body.id.v),
                                           inv[r].domain, body.id.v),
                             src.kind # "reject")
       IN  inv' = [inv EXCEPT ![r] =
                      [@ EXCEPT !.pc = "putEvent", !.src = src,
                                !.now = IF src.kind = "table" THEN now ELSE 0,
                                !.validSegments = res.segments,
                                !.log = Append(@, entry)]]
    /\ UNCHANGED storage

\* the event write with its failure ignored: the mapping write is issued
\* whether or not the event record was stored
handlerJS_PutEvent_Unchecked(r, ok) ==
    /\ inv[r].pc = "putEvent"
    /\ inv[r].variant = "js"
    /\ LET data == inv[r].event.body
           key == EventKeyJS(data, inv[r].domain)
           body == CsvContentJS(data, inv[r].validSegments)
           entry == PutEntry("event", key, body, ok)
       IN  /\ storage' = IF ok THEN PutObject(storage, key, body) ELSE storage
           /\ IF WantsMapping(data)
              THEN inv' = [inv EXCEPT ![r] =
                              [@ EXCEPT !.pc = "putMapping", !.log = Append(@, entry)]]
              ELSE inv' = [inv EXCEPT ![r] =
                              [@ EXCEPT !.pc = "done", !.log = Append(@, entry),
                                        !.response =
                                            Response(200,
                                                getCorsHeaders(inv[r].event.origin),
                                                SuccessBody(data.id.v,
                                                    inv[r].validSegments))]]

\* s3.putObject of the event record settles; then the mapping write is issued
\* if (body.previousId), else the 200 is returned
handlerJS_PutEvent(r, ok) ==
    /\ inv[r].pc = "putEvent"
    /\ inv[r].variant = "js"
    /\ LET data == inv[r].event.body
           key == EventKeyJS(data, inv[r].domain)
           body == CsvContentJS(data, inv[r].validSegments)
           entry == PutEntry("event", key, body, ok)
       IN  IF ~ok
           THEN /\ inv' = [inv EXCEPT ![r] =
                              [@ EXCEPT !.pc = "done", !.log = Append(@, entry),
                                        !.response =
                                            errorResponse(500, "Internal server error")]]
                /\ UNCHANGED storage
           ELSE /\ storage' = PutObject(storage, key, body)
                /\ IF WantsMapping(data)
                   THEN inv' = [inv EXCEPT ![r] =
                                   [@ EXCEPT !.pc = "putMapping",
                                             !.log = Append(@, entry)]]
                   ELSE inv' = [inv EXCEPT ![r] =
                                   [@ EXCEPT !.pc = "done", !.log = Append(@, entry),
                                             !.response =
                                                 Response(200,
                                                     getCorsHeaders(inv[r].event.origin),
                                                     SuccessBody(data.id.v,
                                                         inv[r].validSegments))]]

\* s3.putObject of the mapping record settles (awaited inside the same try)
handlerJS_PutMapping(r, ok) ==
    /\ inv[r].pc = "putMapping"
    /\ inv[r].variant = "js"
    /\ LET data == inv[r].event.body
           key == MappingKeyJS(data)
           body == MappingContent(data)
           entry == PutEntry("mapping", key, body, ok)
       IN  IF ~ok
           THEN /\ inv' = [inv EXCEPT ![r] =
                              [@ EXCEPT !.pc = "done", !.log = Append(@, entry),
                                        !.response =
                                            errorResponse(500, "Internal server error")]]
                /\ UNCHANGED storage
           ELSE /\ storage' = PutObject(storage, key, body)
                /\ inv' = [inv EXCEPT ![r] =
                              [@ EXCEPT !.pc = "done", !.log = Append(@, entry),
                                        !.response =
                                            Response(200,
                                                getCorsHeaders(inv[r].event.origin),
                                                SuccessBody(data.id.v,
                                                    inv[r].validSegments))]]

---------------------------------------------------------------------------
(* The browser client: NewsPassIDImpl in its first variant ("v1") and its  *)
(* second variant ("v2"), the storage helpers and the consent resolver     *)

\* config.namespace
Namespace == <<"publisher">>

\* window.location.href
PageUrl == <<"https://", "example.com">>

\* the random part of a generated identifier: of uuid form, or a base-36 word
RandomParts == {<<"1b9d6bcd", "-", "bbfd", "-", "4b2d">>, <<"k3x9q7">>}

generateId(namespace, rand) == namespace \o <<"-">> \o rand

\* getStoredId that finds nothing
getStoredId_Null(ls) == Absent(<<>>)

\* getStoredId: localStorage.getItem, null when the access throws
getStoredId(ls) == IF ls.works THEN ls.item ELSE Absent(<<>>)

\* storeId that writes the item without its value
storeId_Blank(ls, id) == IF ls.works THEN [ls EXCEPT !.item = Present(<<>>)] ELSE ls

\* storeId that writes nothing
storeId_Skip(ls, id) == ls

\* storeId: localStorage.setItem, a failure swallowed with a warning
storeId(ls, id) == IF ls.works THEN [ls EXCEPT !.item = Present(id)] ELSE ls

\* window.__gpp: not a function ("absent"); a function that throws ("throws");
\* one that never invokes the callback ("silent"); one that invokes it with
\* (data, success), data being null (absent) or an object with its gppString
Gpp(kind) == [kind |-> kind, success |-> FALSE, data |-> Absent(<<>>)]
GppCallback(success, data) == [kind |-> "callback", success |-> success, data |-> data]

\* document.cookie: the value of each consent cookie, <<>> when getCookie
\* finds no non-empty value under the name
CookieJar(gpp, usprivacy, euconsent) ==
    [gpp |-> gpp, usprivacy |-> usprivacy, euconsent |-> euconsent]

getGppConsentFromCookie(cookie) ==
    IF cookie.gpp # <<>> THEN Present(cookie.gpp)
    ELSE IF cookie.usprivacy # <<>> THEN Present(cookie.usprivacy)
    ELSE IF cookie.euconsent # <<>> THEN Present(cookie.euconsent)
    ELSE Absent(<<>>)

\* how the promise of getGppConsentString() settles.  The promise built around
\* the window.__gpp call is returned without being awaited inside the try: a
\* throw of window.__gpp inside its executor rejects it, and a callback that
\* never comes leaves it pending
getGppConsentString(gpp, cookie) ==
    IF gpp.kind = "absent"
    THEN [kind |-> "resolve", v |-> getGppConsentFromCookie(cookie)]
    ELSE IF gpp.kind = "throws" THEN [kind |-> "reject", v |-> Absent(<<>>)]
    ELSE IF gpp.kind = "silent" THEN [kind |-> "pending", v |-> Absent(<<>>)]
    ELSE IF gpp.success /\ gpp.data.has /\ gpp.data.v # <<>>
    THEN [kind |-> "resolve", v |-> Present(gpp.data.v)]
    ELSE [kind |-> "resolve", v |-> getGppConsentFromCookie(cookie)]

\* how the fetch of sendToBackend ends: a network error ("network"), a response
\* that is not ok ("status"), or a JSON body ("json") with or without a
\* segments array; the first two are thrown to the caller
Fetched(kind, segments) == [kind |-> kind, segments |-> segments]

sendToBackend(outcome) == [ok |-> outcome.kind = "json", response |-> outcome]

\* segment.toLowerCase().replace(/[^a-z0-9]/g, '_'), lexeme by lexeme
SegmentKey(segment) ==
    [i \in 1..Len(segment) |->
        CASE segment[i] = "Pub" -> "pub"
          [] segment[i] = "Seg" -> "seg"
          [] segment[i] = "-" -> "_"
          [] OTHER -> segment[i]]

\* convertSegmentsToKeyValue: key -> segment, a later segment of the same key
\* replacing an earlier one
convertSegmentsToKeyValue(segments) ==
    [k \in {SegmentKey(segments[i]) : i \in 1..Len(segments)} |->
        LET last == CHOOSE i \in 1..Len(segments) :
                        /\ SegmentKey(segments[i]) = k
                        /\ \A j \in (i + 1)..Len(segments) : SegmentKey(segments[j]) # k
        IN  segments[last]]

\* the global data layer alone, no ad-server targeting
applySegmentsToPage_DataLayerOnly(win, segments) ==
    [win EXCEPT !.newspass_segments = Present(segments)]

\* applySegmentsToPage: the global data layer and the ad-server targeting key
applySegmentsToPage(win, segments) ==
    [win EXCEPT !.newspass_segments = Present(segments),
                !.npid_segments = Present(segments)]

\* injectSegmentMetaTags: the existing tags removed, one tag per key
injectSegmentMetaTags(win, keyValue) ==
    [win EXCEPT !.metaTags =
        {<< <<"newspass_segment_">> \o k, keyValue[k] >> : k \in DOMAIN keyValue}]

\* injectSegmentMetaTags throws: the existing tags are removed, then the
\* first createElement of the forEach throws
injectThrows(win, keyValue) == win.createElementThrows /\ DOMAIN keyValue # {}

\* a CustomEvent dispatched on window
CustomEvent(type, id, segments, keyValue) ==
    [type |-> type, id |-> id, segments |-> segments, segmentKeyValue |-> keyValue]

\* a setID call: its position, arguments and locals, what it sent and
\* dispatched, and what its promise settled with
IdleCall ==
    [pc |-> "idle", id |-> Absent(<<>>), publisherSegments |-> Absent(<<>>),
     storedId |-> Absent(<<>>), useId |-> <<>>, sent |-> <<>>, events |-> <<>>,
     fetched |-> "", response |-> Absent(<<>>), result |-> Absent(<<>>)]

\* the instance a constructor call gives
NewImpl(variant, injectMetaTags) ==
    [variant |-> variant, injectMetaTags |-> injectMetaTags, segments |-> <<>>,
     segmentKeyValue |-> <<>>, consentString |-> Absent(<<>>)]

\* the page: its consent API and cookies, the segment globals, the segment
\* meta tags of its head, and whether document.createElement throws on it
NewWindow(gpp, cookie) ==
    [gpp |-> gpp, cookie |-> cookie, newspass_segments |-> Absent(<<>>),
     npid_segments |-> Absent(<<>>), metaTags |-> {},
     createElementThrows |-> FALSE]

\* setID storing and notifying without the comparison with the stored identifier
setID_Start_Always(c, id, publisherSegments, rand) ==
    /\ calls[c].pc = "idle"
    /\ LET storedId == getStoredId(localStorage)
           useId == IF TruthyStr(id) THEN id.v
                    ELSE IF TruthyStr(storedId) THEN storedId.v
                    ELSE generateId(Namespace, rand)
           changed == TRUE
       IN  /\ localStorage' = IF changed THEN storeId(localStorage, useId)
                              ELSE localStorage
           /\ calls' = [calls EXCEPT ![c] =
                  [@ EXCEPT !.pc = "consent", !.id = id,
                            !.publisherSegments = publisherSegments,
                            !.storedId = storedId, !.useId = useId,
                            !.events =
                                IF changed /\ impl.variant = "v2"
                                THEN <<CustomEvent("newspassid:change", useId,
                                                   <<>>, <<>>)>>
                                ELSE <<>>]]
    /\ UNCHANGED <<impl, window>>

\* setID from its entry to the await of getGppConsentString()
setID_Start(c, id, publisherSegments, rand) ==
    /\ calls[c].pc = "idle"
    /\ LET storedId == getStoredId(localStorage)
           useId == IF TruthyStr(id) THEN id.v
                    ELSE IF TruthyStr(storedId) THEN storedId.v
                    ELSE generateId(Namespace, rand)
           changed == ~(storedId.has /\ storedId.v = useId)
       IN  /\ localStorage' = IF changed THEN storeId(localStorage, useId)
                              ELSE localStorage
           /\ calls' = [calls EXCEPT ![c] =
                  [@ EXCEPT !.pc = "consent", !.id = id,
                            !.publisherSegments = publisherSegments,
                            !.storedId = storedId, !.useId = useId,
                            !.events =
                                IF changed /\ impl.variant = "v2"
                                THEN <<CustomEvent("newspassid:change", useId,
                                                   <<>>, <<>>)>>
                                ELSE <<>>]]
    /\ UNCHANGED <<impl, window>>

\* payload.previousId with the comparison of the two identifiers left out
previousId_NoCompare(id, storedId) ==
    IF TruthyStr(id) /\ TruthyStr(storedId) THEN Present(storedId.v) ELSE Absent(<<>>)

\* payload.previousId: (id && storedId && id !== storedId) ? storedId : undefined
previousId(id, storedId) ==
    IF TruthyStr(id) /\ TruthyStr(storedId) /\ id.v # storedId.v
    THEN Present(storedId.v) ELSE Absent(<<>>)

\* the consent promise settles; the payload is built and sendToBackend called
setID_Consent(c, now) ==
    /\ calls[c].pc = "consent"
    /\ LET settled == getGppConsentString(window.gpp, window.cookie)
           id == calls[c].id
           storedId == calls[c].storedId
           consentString == IF settled.kind = "reject" THEN Present(<<>>)
                            ELSE settled.v
           payload ==
               BodyOf("object", Present(calls[c].useId), Present(now),
                      Present(PageUrl),
                      Present(IF TruthyStr(consentString) THEN consentString.v
                              ELSE <<>>),
                      previousId(id, storedId), calls[c].publisherSegments)
       IN  /\ settled.kind # "pending"
           /\ IF settled.kind = "reject" /\ impl.variant = "v1"
              THEN /\ calls' = [calls EXCEPT ![c] = [@ EXCEPT !.pc = "rejected"]]
                   /\ UNCHANGED impl
              ELSE /\ impl' = [impl EXCEPT !.consentString = consentString]
                   /\ calls' = [calls EXCEPT ![c] =
                          [@ EXCEPT !.pc = "backend", !.sent = Append(@, payload)]]
    /\ UNCHANGED <<localStorage, window>>

\* setID after sendToBackend as the first variant has it, whatever the client:
\* the publisher segments are not used
setID_Backend_NoFallback(c, outcome) ==
    /\ calls[c].pc = "backend"
    /\ calls' = [calls EXCEPT ![c] =
           [@ EXCEPT !.pc = "returned", !.fetched = outcome.kind,
                     !.response = outcome.segments,
                     !.result = Present(calls[c].useId)]]
    /\ IF sendToBackend(outcome).ok /\ outcome.segments.has
       THEN /\ impl' = [impl EXCEPT !.segments = outcome.segments.v]
            /\ window' = applySegmentsToPage(window, outcome.segments.v)
       ELSE UNCHANGED <<impl, window>>
    /\ UNCHANGED localStorage

\* sendToBackend settles; the segments are applied and the identifier returned
setID_Backend(c, outcome) ==
    /\ calls[c].pc = "backend"
    /\ LET sent == sendToBackend(outcome)
           publisherSegments == calls[c].publisherSegments
           Return(events) ==
               calls' = [calls EXCEPT ![c] =
                   [@ EXCEPT !.pc = "returned", !.fetched = outcome.kind,
                             !.response = outcome.segments,
                             !.events = @ \o events,
                             !.result = Present(calls[c].useId)]]
           \* an error leaves the catch block: the promise of setID rejects
           Reject ==
               calls' = [calls EXCEPT ![c] =
                   [@ EXCEPT !.pc = "rejected", !.fetched = outcome.kind,
                             !.response = outcome.segments]]
           \* the catch block, entered with the instance i and the page w
           Catch(i, w) ==
               IF ~publisherSegments.has
               THEN /\ impl' = i
                    /\ window' = w
                    /\ Return(<<>>)
               ELSE LET keyValue == convertSegmentsToKeyValue(publisherSegments.v)
                        applied == applySegmentsToPage(w, publisherSegments.v)
                    IN  /\ impl' = [i EXCEPT !.segments = publisherSegments.v,
                                             !.segmentKeyValue = keyValue]
                        /\ IF ~impl.injectMetaTags
                           THEN window' = applied /\ Return(<<>>)
                           ELSE IF injectThrows(applied, keyValue)
                           THEN /\ window' = [applied EXCEPT !.metaTags = {}]
                                /\ Reject
                           ELSE /\ window' = injectSegmentMetaTags(applied, keyValue)
                                /\ Return(<<>>)
           \* the try block after sendToBackend has returned
           Try(segments) ==
               LET keyValue == convertSegmentsToKeyValue(segments)
                   applied == applySegmentsToPage(window, segments)
                   i == [impl EXCEPT !.segments = segments,
                                     !.segmentKeyValue = keyValue]
               IN  IF impl.injectMetaTags /\ injectThrows(applied, keyValue)
                   THEN Catch(i, [applied EXCEPT !.metaTags = {}])
                   ELSE /\ impl' = i
                        /\ window' = IF impl.injectMetaTags
                                     THEN injectSegmentMetaTags(applied, keyValue)
                                     ELSE applied
                        /\ Return(<<CustomEvent("newspass_segments_ready", <<>>,
                                                segments, keyValue)>>)
       IN  IF impl.variant = "v1"
           THEN IF sent.ok /\ sent.response.segments.has
                THEN /\ impl' = [impl EXCEPT !.segments = sent.response.segments.v]
                     /\ window' = applySegmentsToPage(window,
                                                      sent.response.segments.v)
                     /\ Return(<<CustomEvent("newspass_segments_ready", <<>>,
                                             sent.response.segments.v, <<>>)>>)
                ELSE /\ Return(<<>>)
                     /\ UNCHANGED <<impl, window>>
           ELSE IF sent.ok
                THEN Try(IF sent.response.segments.has
                         THEN sent.response.segments.v
                         ELSE IF publisherSegments.has THEN publisherSegments.v
                         ELSE impl.segments)
                ELSE Catch(impl, window)
    /\ UNCHANGED localStorage

\* clearID: the item removed from the store, the segments forgotten (and, in
\* the second variant, the key-values and meta tags); a store that throws
\* ends it at once, with a warning
clearID ==
    IF ~localStorage.works THEN UNCHANGED <<localStorage, impl, window>>
    ELSE /\ localStorage' = [localStorage EXCEPT !.item = Absent(<<>>)]
         /\ impl' = [impl EXCEPT !.segments = <<>>, !.segmentKeyValue = <<>>]
         /\ window' = IF impl.variant = "v2"
                      THEN [window EXCEPT !.metaTags = {}] ELSE window

\* getID(): the stored identifier, or null
getID(ls) == getStoredId(ls)

\* return this.segments: the array of the instance itself
getSegments_NoCopy(i) == [v |-> i.segments, shared |-> TRUE]

\* getSegments(): [...this.segments], a new array with the same elements
getSegments(i) == [v |-> i.segments, shared |-> FALSE]

\* the page's script before it has read anything or called clearID()
NoReads ==
    [id |-> Absent(<<>>), segments |-> Absent(<<>>), shared |-> FALSE, clears |-> 0]

---------------------------------------------------------------------------
(* The async loader: the stub that buffers calls, and script.onload *)

\* a page without the loader ("none", "none"), or with it before the script
\* has loaded ("loading", "stub")
Loader(pc, handle) ==
    [pc |-> pc, handle |-> handle, newspassid_q |-> <<>>, made |-> <<>>,
     buffered |-> <<>>,
     dispatched |-> <<>>, errors |-> <<>>, newspass_initialized |-> FALSE,
     timer |-> "none"]

\* an entry of window.newspassid_q: [method, ...params]
Item(method, id) == [method |-> method, id |-> id]

\* the setID calls the page has still to start: those waiting in the queue,
\* and the one of the loader's timer
Owed ==
    Cardinality({i \in 1..Len(loader.newspassid_q) :
                    loader.newspassid_q[i].method = "setID"})
        + (IF loader.handle # "none" /\ loader.pc # "failed" /\ loader.timer # "fired"
           THEN 1 ELSE 0)

IdleCalls == {c \in DOMAIN calls : calls[c].pc = "idle"}

\* the record of the next call
NextCall == CHOOSE c \in IdleCalls : \A b \in IdleCalls : c <= b

\* no catch around the call: the error ends the onload handler
Caught_Uncaught(l, item) ==
    [l EXCEPT !.errors = Append(@, item), !.pc = "failed"]

\* catch (e) { console.error(...) }: the error of the entry is logged
Caught(l, item) == [l EXCEPT !.errors = Append(@, item)]

\* queue.pop(): the last entry taken
shift_Pop(queue) ==
    [item |-> queue[Len(queue)], rest |-> SubSeq(queue, 1, Len(queue) - 1)]

\* queue.shift(): the first entry taken
shift(queue) == [item |-> Head(queue), rest |-> Tail(queue)]

---------------------------------------------------------------------------
(* Inputs *)

P1 == <<"publisher", "-", "1">>
P2 == <<"publisher", "-", "2">>

\* identifiers: empty, of the publisher-<digits> form, of another namespace,
\* with a non-digit token, without a dash, with three dash-separated parts
IdValues ==
    {<<>>, P1, P2, <<"news", "-", "1">>, <<"publisher", "-", "x">>,
     <<"publisher">>, <<"publisher", "-", "1", "-", "2">>}

UrlValues ==
    {<<>>, <<"https://", "www.", "example.com", "/", "x">>,
     <<"https://", "example.com">>, <<"not a url">>}

ConsentValues == {<<>>, <<"consent123">>}

PreviousIdValues == {<<>>, P1, P2}

PublisherSegmentsValues == {<< <<"seg1">>, <<"seg2">> >>}

Optional(S, dflt) == {Absent(dflt)} \cup {Present(x) : x \in S}

ObjectBodies ==
    {BodyOf("object", id, ts, url, cs, prev, ps) :
        id \in Optional(IdValues, <<>>),
        ts \in Optional(0..MaxTs, 0),
        url \in Optional(UrlValues, <<>>),
        cs \in Optional(ConsentValues, <<>>),
        prev \in Optional(PreviousIdValues, <<>>),
        ps \in Optional(PublisherSegmentsValues, <<>>)}

Bodies == {BodyNot("none"), BodyNot("malformed"), BodyNot("null")} \cup ObjectBodies

Origins == Optional({<<"https://", "example.com">>}, <<>>)

Events ==
    {EventOf(m, o, b) : m \in {"POST", "OPTIONS"}, o \in Origins, b \in Bodies}

StdHeader == << <<"segments">>, <<"expire_timestamp">> >>

\* segment sources of the request-handling specification: two rejections, a
\* response without Body, a table with one live and one expired row, a table
\* without the expiry column, and a table with a row one field short
Sources ==
    {SrcReject("NoSuchKey"), SrcReject("AccessDenied"), SrcNoBody,
     SrcTable(StdHeader, << <<<<"segA">>, NumStr(MaxNow + 1)>>,
                            <<<<"segB">>, NumStr(1)>> >>),
     SrcTable(<< <<"segments">> >>, << <<<<"segA">>>> >>),
     SrcTable(StdHeader, << <<<<"segA">>>> >>)}

Nows == 1..MaxNow

\* one invocation per behaviour; the bucket starts empty
Slots == {1}

---------------------------------------------------------------------------
(* Specification: one request, any event, either variant *)

\* a page on which no client call is made
NoPage ==
    /\ localStorage = [works |-> TRUE, item |-> Absent(<<>>)]
    /\ impl = NewImpl("v2", TRUE)
    /\ window = NewWindow(Gpp("absent"), CookieJar(<<>>, <<>>, <<>>))
    /\ calls = <<>>
    /\ loader = Loader("none", "none")
    /\ page = NoReads

Init ==
    /\ storage = <<>>
    /\ inv = [r \in Slots |-> IdleInv]
    /\ NoPage

\* (each guard is stated ahead of the choice of the input)
StartTS ==
    /\ \E r \in Slots : inv[r].pc = "idle" /\ \E event \in Events : handlerTS_Start(r, event)
    /\ UNCHANGED clientVars
SegmentsTS ==
    /\ \E r \in Slots :
           /\ inv[r].pc = "getSegments" /\ inv[r].variant = "ts"
           /\ \E src \in Sources, now \in Nows : handlerTS_Segments(r, src, now)
    /\ UNCHANGED clientVars
PutEventTS ==
    /\ \E r \in DOMAIN inv, ok \in BOOLEAN : handlerTS_PutEvent(r, ok)
    /\ UNCHANGED clientVars
PutMappingTS ==
    /\ \E r \in DOMAIN inv, ok \in BOOLEAN : handlerTS_PutMapping(r, ok)
    /\ UNCHANGED clientVars
StartJS ==
    /\ \E r \in Slots : inv[r].pc = "idle" /\ \E event \in Events : handlerJS_Start(r, event)
    /\ UNCHANGED clientVars
SegmentsJS ==
    /\ \E r \in Slots :
           /\ inv[r].pc = "getSegments" /\ inv[r].variant = "js"
           /\ \E src \in Sources, now \in Nows : handlerJS_Segments(r, src, now)
    /\ UNCHANGED clientVars
PutEventJS ==
    /\ \E r \in DOMAIN inv, ok \in BOOLEAN : handlerJS_PutEvent(r, ok)
    /\ UNCHANGED clientVars
PutMappingJS ==
    /\ \E r \in DOMAIN inv, ok \in BOOLEAN : handlerJS_PutMapping(r, ok)
    /\ UNCHANGED clientVars

Next ==
    \/ StartTS
    \/ SegmentsTS
    \/ PutEventTS
    \/ PutMappingTS
    \/ StartJS
    \/ SegmentsJS
    \/ PutEventJS
    \/ PutMappingJS

Spec == Init /\ [][Next]_vars

---------------------------------------------------------------------------
(* Specification: valid requests against every small segment source table *)

SegmentEvents ==
    {EventOf("POST", Absent(<<>>),
             BodyOf("object", Present(P1), Present(1),
                    Present(<<"https://", "www.", "example.com", "/", "x">>),
                    Present(<<"consent123">>), prev, Absent(<<>>))) :
        prev \in Optional({P2}, <<>>)}

\* expiry cells: empty, a word, a numeral followed by a word, and numerals
ExpiryCells ==
    {<<>>, <<"soon">>, <<ToString(MaxExpiry), "abc">>}
        \cup {NumStr(n) : n \in 1..MaxExpiry}

SegmentNames == {<<"segA">>, <<"segB">>}

\* the fields of a data row in the order of the header's columns
RowsFor(header) ==
    {[c \in 1..2 |-> IF header[c] = <<"segments">> THEN name ELSE cell] :
        name \in SegmentNames, cell \in ExpiryCells}
        \cup {<< <<"segA">> >>, << <<>> >>}

SegmentHeaders == {StdHeader, << <<"expire_timestamp">>, <<"segments">> >>}

SegmentSources ==
    UNION {{SrcTable(h, rows) :
               rows \in UNION {[1..n -> RowsFor(h)] : n \in 0..MaxRows}} :
           h \in SegmentHeaders}

SegStartTS ==
    /\ \E r \in Slots :
           inv[r].pc = "idle" /\ \E event \in SegmentEvents : handlerTS_Start(r, event)
    /\ UNCHANGED clientVars
SegSegmentsTS ==
    /\ \E r \in Slots :
           /\ inv[r].pc = "getSegments" /\ inv[r].variant = "ts"
           /\ \E src \in SegmentSources, now \in Nows : handlerTS_Segments(r, src, now)
    /\ UNCHANGED clientVars
SegStartJS ==
    /\ \E r \in Slots :
           inv[r].pc = "idle" /\ \E event \in SegmentEvents : handlerJS_Start(r, event)
    /\ UNCHANGED clientVars
SegSegmentsJS ==
    /\ \E r \in Slots :
           /\ inv[r].pc = "getSegments" /\ inv[r].variant = "js"
           /\ \E src \in SegmentSources, now \in Nows : handlerJS_Segments(r, src, now)
    /\ UNCHANGED clientVars

NextSegments ==
    \/ SegStartTS
    \/ SegSegmentsTS
    \/ PutEventTS
    \/ PutMappingTS
    \/ SegStartJS
    \/ SegSegmentsJS
    \/ PutEventJS
    \/ PutMappingJS

SpecSegments == Init /\ [][NextSegments]_vars

---------------------------------------------------------------------------
(* Specification: two requests, to compare what each is answered *)

PairSlots == {1, 2}

InitPair ==
    /\ storage = <<>>
    /\ inv = [r \in PairSlots |-> IdleInv]
    /\ NoPage

\* valid requests that differ in their timestamp field only
ClockEvents ==
    {EventOf("POST", Absent(<<>>),
             BodyOf("object", Present(P1), Present(ts),
                    Present(<<"https://", "example.com">>),
                    Present(<<"consent123">>), Absent(<<>>), Absent(<<>>))) :
        ts \in 1..MaxTs}

\* a rejection, the empty table, the tables of one row of each numeric expiry,
\* and a table of a late and an early row
ClockSources ==
    {SrcReject("AccessDenied"), SrcTable(StdHeader, <<>>),
     SrcTable(StdHeader, << <<<<"segA">>, NumStr(MaxExpiry)>>,
                            <<<<"segB">>, NumStr(1)>> >>)}
        \cup {SrcTable(StdHeader, << <<<<"segA">>, NumStr(e)>> >>) : e \in 1..MaxExpiry}

ClockStartTS ==
    /\ \E r \in PairSlots :
           inv[r].pc = "idle" /\ \E event \in ClockEvents : handlerTS_Start(r, event)
    /\ UNCHANGED clientVars
ClockSegmentsTS ==
    /\ \E r \in PairSlots :
           /\ inv[r].pc = "getSegments" /\ inv[r].variant = "ts"
           /\ \E src \in ClockSources, now \in Nows : handlerTS_Segments(r, src, now)
    /\ UNCHANGED clientVars
ClockStartJS ==
    /\ \E r \in PairSlots :
           inv[r].pc = "idle" /\ \E event \in ClockEvents : handlerJS_Start(r, event)
    /\ UNCHANGED clientVars
ClockSegmentsJS ==
    /\ \E r \in PairSlots :
           /\ inv[r].pc = "getSegments" /\ inv[r].variant = "js"
           /\ \E src \in ClockSources, now \in Nows : handlerJS_Segments(r, src, now)
    /\ UNCHANGED clientVars

NextPair ==
    \/ ClockStartTS
    \/ ClockSegmentsTS
    \/ PutEventTS
    \/ ClockStartJS
    \/ ClockSegmentsJS
    \/ PutEventJS

SpecPair == InitPair /\ [][NextPair]_vars

---------------------------------------------------------------------------
(* Specification: a page that calls setID twice, the calls free to overlap *)

\* the id argument: omitted, '', or an identifier
ExplicitIds == Optional({<<>>, P1, P2}, <<>>)

\* the publisherSegments argument: omitted, [], or one segment
PublisherSegmentLists == Optional({<<>>, << <<"Pub", "-", "Seg">> >>}, <<>>)

\* the ways the fetch ends
FetchOutcomes ==
    {Fetched("network", Absent(<<>>)), Fetched("status", Absent(<<>>))}
        \cup {Fetched("json", segs) : segs \in Optional({<<>>, << <<"segA">> >>}, <<>>)}

\* the consent set-ups of the page: no API and no cookie, no API and a gpp
\* cookie, an API that answers, one that throws, one that stays silent
ClientWindows ==
    {NewWindow(Gpp("absent"), CookieJar(<<>>, <<>>, <<>>)),
     NewWindow(Gpp("absent"), CookieJar(<<"gpp-cookie">>, <<>>, <<>>)),
     NewWindow(GppCallback(TRUE, Present(<<"gpp-string">>)), CookieJar(<<>>, <<>>, <<>>)),
     NewWindow(Gpp("throws"), CookieJar(<<"gpp-cookie">>, <<>>, <<>>)),
     NewWindow(Gpp("silent"), CookieJar(<<>>, <<>>, <<>>))}

\* the store is empty, holds an identifier, or cannot be accessed; the client is
\* of either variant, the second with meta tags on (the default) or off
InitClient ==
    /\ storage = <<>>
    /\ inv = [r \in Slots |-> IdleInv]
    /\ localStorage \in
           {[works |-> TRUE, item |-> item] : item \in Optional({P1}, <<>>)}
               \cup {[works |-> FALSE, item |-> Absent(<<>>)]}
    /\ impl \in {NewImpl("v1", TRUE)} \cup {NewImpl("v2", b) : b \in BOOLEAN}
    /\ window \in ClientWindows
    /\ calls = [c \in {1, 2} |-> IdleCall]
    /\ loader = Loader("none", "none")
    /\ page = NoReads

\* the page calls setID on the client
CallSetID ==
    /\ IdleCalls # {}
    /\ \E id \in ExplicitIds, segs \in PublisherSegmentLists, rand \in RandomParts :
           setID_Start(NextCall, id, segs, rand)
    /\ UNCHANGED <<serverVars, loader, page>>
ConsentSettles ==
    /\ \E c \in DOMAIN calls, now \in Nows : setID_Consent(c, now)
    /\ UNCHANGED <<serverVars, loader, page>>
BackendSettles ==
    /\ \E c \in DOMAIN calls, outcome \in FetchOutcomes : setID_Backend(c, outcome)
    /\ UNCHANGED <<serverVars, loader, page>>

NextClient ==
    \/ CallSetID
    \/ ConsentSettles
    \/ BackendSettles

SpecClient == InitClient /\ [][NextClient]_vars

---------------------------------------------------------------------------
(* Specification: one setID call on a page of any consent set-up *)

\* every behaviour of window.__gpp with every setting of the three cookies
ConsentWindows ==
    {NewWindow(gpp, CookieJar(c1, c2, c3)) :
        gpp \in {Gpp("absent"), Gpp("throws"), Gpp("silent")}
                 \cup {GppCallback(success, data) :
                           success \in BOOLEAN,
                           data \in Optional({<<>>, <<"gpp-string">>}, <<>>)},
        c1 \in {<<>>, <<"gpp-cookie">>},
        c2 \in {<<>>, <<"usp-cookie">>},
        c3 \in {<<>>, <<"tcf-cookie">>}}

InitConsent ==
    /\ storage = <<>>
    /\ inv = [r \in Slots |-> IdleInv]
    /\ localStorage = [works |-> TRUE, item |-> Absent(<<>>)]
    /\ impl \in {NewImpl("v1", TRUE), NewImpl("v2", TRUE)}
    /\ window \in ConsentWindows
    /\ calls = [c \in {1} |-> IdleCall]
    /\ loader = Loader("none", "none")
    /\ page = NoReads

SpecConsent == InitConsent /\ [][NextClient]_vars

---------------------------------------------------------------------------
(* The page that uses the async loader *)

\* the calls the stub buffers over a run
MaxQueued == 2

\* the calls the page makes on the stub: setID with or without an id and with
\* or without publisherSegments, getID(), getSegments(), clearID()
PageCalls ==
    {[method |-> "setID", id |-> id, publisherSegments |-> segs] :
        id \in Optional({P2}, <<>>),
        segs \in Optional({<< <<"Pub", "-", "Seg">> >>}, <<>>)}
        \cup {[method |-> m, id |-> Absent(<<>>), publisherSegments |-> Absent(<<>>)] :
                 m \in {"getID", "getSegments", "clearID"}}

\* the loader script has run: the stub is window.newspassid, the queue is
\* empty, the client script is being fetched
InitShim ==
    /\ storage = [k \in {} |-> <<>>]
    /\ inv = <<>>
    /\ localStorage \in {[works |-> TRUE, item |-> Absent(<<>>)],
                         [works |-> TRUE, item |-> Present(P1)]}
    /\ impl \in {NewImpl("v1", FALSE), NewImpl("v2", TRUE)}
    /\ window = NewWindow(Gpp("absent"), CookieJar(<<>>, <<>>, <<>>))
    /\ calls = [c \in 1..(MaxQueued + 1) |-> IdleCall]
    /\ loader = Loader("loading", "stub")
    /\ page = NoReads

\* the page (or, while the queue is drained, a listener of an event the
\* dispatched call emits) calls a method of the stub: the stub pushes
\* ['setID', id], ['getID'], ['getSegments'] or ['clearID']
StubCall ==
    /\ loader.handle = "stub"
    /\ Len(loader.buffered) < MaxQueued
    /\ \E call \in PageCalls :
          /\ call.method = "setID" => Cardinality(IdleCalls) > Owed
          /\ loader' = [loader EXCEPT
                           !.made = Append(@, call),
                           !.newspassid_q = Append(@, Item(call.method, call.id)),
                           !.buffered = Append(@, Item(call.method, call.id))]
    /\ UNCHANGED <<serverVars, localStorage, impl, window, calls, page>>

\* script.onload as far as the loop: without createNewsPassID it gives up;
\* with it the real client is constructed, and a stored id resets
\* window.newspass_segments (script.onerror leaves the page as giving up does)
OnloadStart ==
    /\ loader.pc = "loading"
    /\ \E found \in BOOLEAN :
          IF found
          THEN /\ loader' = [loader EXCEPT !.pc = "draining"]
               /\ window' = IF TruthyStr(getStoredId(localStorage))
                            THEN [window EXCEPT !.newspass_segments = Present(<<>>)]
                            ELSE window
          ELSE /\ loader' = [loader EXCEPT !.pc = "failed"]
               /\ UNCHANGED window
    /\ UNCHANGED <<serverVars, localStorage, impl, calls, page>>

\* one round of the loop: an entry leaves the queue and its method is applied
\* to the real client, inside try/catch.  setID is an async function: it
\* returns a promise and never throws into the loop; the other methods either
\* return or throw (before they have changed anything)
OnloadDrain ==
    /\ loader.pc = "draining"
    /\ loader.newspassid_q # <<>>
    /\ LET s == shift(loader.newspassid_q)
           l == [loader EXCEPT !.newspassid_q = s.rest,
                               !.dispatched = Append(@, s.item)]
       IN  \E threw \in BOOLEAN :
              IF s.item.method = "setID"
              THEN /\ ~threw
                   /\ loader' = l
                   /\ \E rand \in RandomParts :
                         setID_Start(NextCall, s.item.id, Absent(<<>>), rand)
              ELSE IF threw
              THEN /\ loader' = Caught(l, s.item)
                   /\ UNCHANGED <<localStorage, impl, window, calls>>
              ELSE /\ loader' = l
                   /\ IF s.item.method = "clearID"
                      THEN clearID /\ UNCHANGED calls
                      ELSE UNCHANGED <<localStorage, impl, window, calls>>
    /\ UNCHANGED <<serverVars, page>>

\* after the loop: window.newspassid becomes the real client and the timer of
\* the default setID is set
OnloadFinish ==
    /\ loader.pc = "draining"
    /\ loader.newspassid_q = <<>>
    /\ loader' = [loader EXCEPT !.pc = "loaded", !.handle = "real",
                     !.timer = IF loader.newspass_initialized THEN "none"
                               ELSE "armed"]
    /\ UNCHANGED <<serverVars, localStorage, impl, window, calls, page>>

\* the timer fires: realNewsPassID.setID()
TimerFires ==
    /\ loader.pc = "loaded"
    /\ loader.timer = "armed"
    /\ \E rand \in RandomParts :
          setID_Start(NextCall, Absent(<<>>), Absent(<<>>), rand)
    /\ loader' = [loader EXCEPT !.timer = "fired", !.newspass_initialized = TRUE]
    /\ UNCHANGED <<serverVars, page>>

\* the page calls setID through window.newspassid, now the real client
HandleCall ==
    /\ loader.handle = "real"
    /\ Cardinality(IdleCalls) > Owed
    /\ \E rand \in RandomParts :
          setID_Start(NextCall, Present(P1), Absent(<<>>), rand)
    /\ UNCHANGED <<serverVars, loader, page>>

\* a started call goes on, once the onload handler has returned: its consent
\* lookup settles, or its request to the backend does
CallSettles ==
    /\ loader.pc # "draining"
    /\ \E c \in DOMAIN calls :
          \/ setID_Consent(c, 1)
          \/ \E outcome \in {Fetched("network", Absent(<<>>)),
                              Fetched("json", Present(<< <<"segA">> >>))} :
                setID_Backend(c, outcome)
    /\ UNCHANGED <<serverVars, loader, page>>

NextShim ==
    \/ StubCall
    \/ OnloadStart
    \/ OnloadDrain
    \/ OnloadFinish
    \/ TimerFires
    \/ HandleCall
    \/ CallSettles

SpecShim == InitShim /\ [][NextShim]_vars

---------------------------------------------------------------------------
(* The page that uses every operation of the client *)

\* the clearID() calls of a page
MaxClears == 2

\* a store that is empty, holds an identifier, or throws; either client, with
\* and without injection of meta tags; a page whose document.createElement
\* works, and one where it throws
InitPage ==
    /\ storage = <<>>
    /\ inv = [r \in Slots |-> IdleInv]
    /\ localStorage \in
           {[works |-> TRUE, item |-> item] : item \in Optional({P1}, <<>>)}
               \cup {[works |-> FALSE, item |-> Absent(<<>>)]}
    /\ impl \in {NewImpl("v1", TRUE)} \cup {NewImpl("v2", b) : b \in BOOLEAN}
    /\ window \in {[NewWindow(Gpp("absent"), CookieJar(<<>>, <<>>, <<>>))
                       EXCEPT !.createElementThrows = b] : b \in BOOLEAN}
    /\ calls = [c \in {1, 2} |-> IdleCall]
    /\ loader = Loader("none", "none")
    /\ page = NoReads

\* the page calls clearID()
CallClearID ==
    /\ page.clears < MaxClears
    /\ clearID
    /\ page' = [page EXCEPT !.clears = @ + 1]
    /\ UNCHANGED <<serverVars, calls, loader>>

\* the page calls getID() and keeps the result
CallGetID ==
    /\ page' = [page EXCEPT !.id = getID(localStorage)]
    /\ UNCHANGED <<serverVars, localStorage, impl, window, calls, loader>>

\* the page calls getSegments() and keeps the array
CallGetSegments ==
    /\ page' = [page EXCEPT !.segments = Present(getSegments(impl).v),
                            !.shared = getSegments(impl).shared]
    /\ UNCHANGED <<serverVars, localStorage, impl, window, calls, loader>>

\* the page pushes an element of its own onto the array it was given; an
\* array that is the instance's own changes for the instance too
PushOnReturned ==
    /\ page.segments.has
    /\ Len(page.segments.v) <= 1
    /\ page' = [page EXCEPT !.segments.v = Append(@, <<"mine">>)]
    /\ impl' = IF page.shared /\ impl.segments = page.segments.v
               THEN [impl EXCEPT !.segments = Append(@, <<"mine">>)]
               ELSE impl
    /\ UNCHANGED <<serverVars, localStorage, window, calls, loader>>

\* the page calls setID, with or without an id and publisherSegments (one
\* segment, or two whose names differ in case and punctuation only)
PageSetID ==
    /\ IdleCalls # {}
    /\ \E id \in Optional({P2}, <<>>),
          segs \in Optional({<< <<"Pub", "-", "Seg">> >>,
                             << <<"Pub", "-", "Seg">>, <<"pub", "_", "seg">> >>},
                            <<>>) :
          setID_Start(NextCall, id, segs, <<"k3x9q7">>)
    /\ UNCHANGED <<serverVars, loader, page>>

NextPage ==
    \/ PageSetID
    \/ CallSettles
    \/ CallClearID
    \/ CallGetID
    \/ CallGetSegments
    \/ PushOnReturned

SpecPage == InitPage /\ [][NextPage]_vars

---------------------------------------------------------------------------
(* Vocabulary of the claims, stated from the specification's words and not *)
(* through the handler's own functions                                     *)

Done(r) == inv[r].pc = "done"

StatusOf(r) == inv[r].response.statusCode

LogOf(r) == inv[r].log

\* a completed put of invocation r at a call site ("event" or "mapping")
PutsAt(r, site) ==
    {i \in 1..Len(LogOf(r)) : LogOf(r)[i].op = "put" /\ LogOf(r)[i].site = site}

\* the request was answered by the TypeScript handler's preflight branch,
\* before its body was read
IsPreflight(r) == inv[r].variant = "ts" /\ inv[r].event.httpMethod = "OPTIONS"

\* the handler parsed the request body into an object
ParsedBody(r) == inv[r].event.body.kind = "object" /\ ~IsPreflight(r)

\* a required field is missing from the parsed body, or is the empty string
LacksRequired(b) ==
    \/ ~b.id.has \/ b.id.v = <<>>
    \/ ~b.timestamp.has
    \/ ~b.url.has \/ b.url.v = <<>>
    \/ ~b.consentString.has \/ b.consentString.v = <<>>

\* the number of dashes of an identifier
Dashes(id) == Cardinality({i \in 1..Len(id) : id[i] = "-"})

\* the identifier format each variant recognizes: publisher-<digits> in the
\* TypeScript handler; in the JavaScript one, dash-separated non-empty
\* components, two at least
Recognized(variant, id) ==
    IF variant = "ts"
    THEN \E n \in 1..Len(id) :
            /\ Len(id) = n + 2
            /\ SubSeq(id, 1, 2) = <<"publisher", "-">>
            /\ \A i \in 3..Len(id) : \E d \in Numerals : id[i] = ToString(d)
    ELSE /\ Dashes(id) >= 1
         /\ id[1] # "-"
         /\ id[Len(id)] # "-"
         /\ \A i \in 1..(Len(id) - 1) : ~(id[i] = "-" /\ id[i + 1] = "-")

\* the domain the specification derives from each url of the model
\* ("https://www.example.com/x" => "example.com", "not a url" => "unknown")
DomainOfUrl(url) ==
    IF url \in {<<"https://", "www.", "example.com", "/", "x">>,
                <<"https://", "example.com">>}
    THEN <<"example.com">>
    ELSE <<"unknown">>

\* <namespace-or-"publisher">: the fixed segment "publisher" in the TypeScript
\* handler, the identifier's namespace (what precedes its dash) in the other
NamespaceOrPublisher(variant, id) ==
    IF variant = "ts" THEN <<"publisher">>
    ELSE SubSeq(id, 1, (CHOOSE i \in 1..Len(id) :
                           id[i] = "-" /\ \A k \in 1..(i - 1) : id[k] # "-") - 1)

\* <root>/<namespace-or-"publisher">/<domain>/<id>/<timestamp>.csv
EventPath(r) ==
    LET b == inv[r].event.body
    IN  <<"newspassid", "/">> \o NamespaceOrPublisher(inv[r].variant, b.id.v)
            \o <<"/">> \o DomainOfUrl(b.url.v) \o <<"/">> \o b.id.v
            \o <<"/", ToString(b.timestamp.v), ".csv">>

\* invocation r completed a successful write of its event record at EventPath,
\* and the bucket holds what it wrote
EventPersisted(r) ==
    /\ \E i \in PutsAt(r, "event") :
          /\ LogOf(r)[i].ok
          /\ LogOf(r)[i].key = EventPath(r)
          /\ EventPath(r) \in DOMAIN storage
          /\ storage[EventPath(r)] = LogOf(r)[i].body
          /\ storage[EventPath(r)].row[1] = inv[r].event.body.id.v

---------------------------------------------------------------------------
(* Claims *)

\* C1 (as stated): every request answered with status 200 has, before the
\* response, successfully written its event record to
\* <root>/<namespace-or-"publisher">/<domain>/<id>/<timestamp>.csv.
C1_Original ==
    \A r \in Slots : (Done(r) /\ StatusOf(r) = 200) => EventPersisted(r)

\* C1 (amended): every request answered with status 200, other than an OPTIONS
\* preflight answered by the TypeScript handler, has successfully written its
\* event record to that key before the response.
C1_Status200ImpliesEventPersisted ==
    \A r \in Slots :
        (Done(r) /\ StatusOf(r) = 200 /\ ~IsPreflight(r)) => EventPersisted(r)

C1_Witness ==
    \E r \in Slots :
        /\ Done(r) /\ StatusOf(r) = 200 /\ ~IsPreflight(r)
        /\ inv[r].variant = "ts"
        /\ <<"newspassid", "/", "publisher", "/", "example.com", "/",
             "publisher", "-", "1", "/", "1", ".csv">> \in DOMAIN storage

\* C2: a request whose parsed body lacks (or has empty) one of id, timestamp,
\* url, consentString is answered 400, with no storage write and no read of
\* the segment source.
C2_MissingFieldRejectedBeforeStorage ==
    \A r \in Slots :
        (ParsedBody(r) /\ LacksRequired(inv[r].event.body))
            => /\ Done(r)
               /\ StatusOf(r) = 400
               /\ LogOf(r) = <<>>
               /\ DOMAIN storage = {}

C2_Witness ==
    \E r \in Slots :
        /\ Done(r) /\ ParsedBody(r)
        /\ inv[r].event.body.id.v = P1
        /\ inv[r].event.body.timestamp.v = 1
        /\ inv[r].event.body.url.v = <<"https://", "example.com">>
        /\ inv[r].event.body.consentString = Present(<<>>)
        /\ StatusOf(r) = 400

\* C3: a request whose id does not match the recognized identifier format is
\* answered 400 (with 'Invalid ID format' when no required field is missing),
\* with no storage write and no segment-source lookup.
C3_InvalidIdRejectedBeforeStorage ==
    \A r \in Slots :
        (ParsedBody(r) /\ ~Recognized(inv[r].variant, inv[r].event.body.id.v))
            => /\ Done(r)
               /\ StatusOf(r) = 400
               /\ LogOf(r) = <<>>
               /\ DOMAIN storage = {}
               /\ (~LacksRequired(inv[r].event.body) /\ inv[r].event.body.timestamp.v # 0)
                      => inv[r].response.body.error = "Invalid ID format"

C3_Witness ==
    \E r \in Slots :
        /\ Done(r) /\ ParsedBody(r)
        /\ inv[r].variant = "ts"
        /\ inv[r].event.body.id.v = <<"publisher", "-", "x">>
        /\ ~LacksRequired(inv[r].event.body)
        /\ inv[r].event.body.timestamp.v # 0
        /\ StatusOf(r) = 400
        /\ inv[r].response.body.error = "Invalid ID format"
\* C4 (as stated): the handler writes a succession mapping record if and only
\* if previousId is present, non-empty and different from id (for a request
\* whose event record was written).
C4_MappingIffPreviousIdDiffers ==
    \A r \in Slots :
        (/\ Done(r)
         /\ \E i \in PutsAt(r, "event") : LogOf(r)[i].ok
         /\ \A i \in PutsAt(r, "mapping") : LogOf(r)[i].ok)
            => ((PutsAt(r, "mapping") # {})
                <=> (/\ inv[r].event.body.previousId.has
                     /\ inv[r].event.body.previousId.v # <<>>
                     /\ inv[r].event.body.previousId.v # inv[r].event.body.id.v))

\* C5: when the write of the event record fails, the response is 500 with
\* success:false, never 200, and no succession mapping is written.
C5_EventWriteFailureIs500 ==
    \A r \in Slots :
        (Done(r) /\ \E i \in PutsAt(r, "event") : ~LogOf(r)[i].ok)
            => /\ StatusOf(r) = 500
               /\ inv[r].response.body.success = FALSE
               /\ PutsAt(r, "mapping") = {}
               /\ DOMAIN storage = {}

C5_Witness ==
    \E r \in Slots :
        /\ Done(r)
        /\ \E i \in PutsAt(r, "event") : ~LogOf(r)[i].ok
        /\ inv[r].event.body.previousId = Present(P1)
        /\ inv[r].event.body.id.v = P2
        /\ StatusOf(r) = 500

\* C6 (as stated): when the event record was written and the write of the
\* succession mapping fails, the response is still 200 with success:true.
C6_MappingFailureStill200 ==
    \A r \in Slots :
        (/\ Done(r)
         /\ \E i \in PutsAt(r, "event") : LogOf(r)[i].ok
         /\ \E i \in PutsAt(r, "mapping") : ~LogOf(r)[i].ok)
            => /\ StatusOf(r) = 200
               /\ inv[r].response.body.success = TRUE

\* the read of the segment source failed: the storage call was rejected, or
\* the content is malformed (a required column missing from the header, or a
\* row whose number of fields is not the header's)
SourceFailed(src) ==
    \/ src.kind = "reject"
    \/ /\ src.kind = "table"
       /\ \/ \A i \in 1..Len(src.header) : src.header[i] # <<"expire_timestamp">>
          \/ \A i \in 1..Len(src.header) : src.header[i] # <<"segments">>
          \/ \E i \in 1..Len(src.rows) : Len(src.rows[i]) # Len(src.header)

\* C7 (as stated): when reading the segment source fails for an otherwise
\* valid request, the segment list is taken as empty and the handler proceeds:
\* it goes on to write the event record and, its writes succeeding, answers
\* 200 with segments = [].
C7_SegmentReadFailureIsEmptyList ==
    \A r \in Slots :
        SourceFailed(inv[r].src)
            => /\ inv[r].validSegments = <<>>
               /\ Done(r) => PutsAt(r, "event") # {}
               /\ (Done(r) /\ \A i \in 1..Len(LogOf(r)) :
                                  LogOf(r)[i].op = "put" => LogOf(r)[i].ok)
                      => /\ StatusOf(r) = 200
                         /\ inv[r].response.body.segments = <<>>
                         /\ EventPersisted(r)

\* C8: in the TypeScript handler, when the read of the segment source is
\* rejected for a request with all required fields and a valid id, the response
\* is 500 with body {success: false, error: 'Internal server error'}.
C8_SegmentReadRejectedIs500TS ==
    \A r \in Slots :
        (/\ inv[r].variant = "ts"
         /\ inv[r].src.kind = "reject"
         /\ ~LacksRequired(inv[r].event.body)
         /\ Recognized("ts", inv[r].event.body.id.v))
            => /\ Done(r)
               /\ StatusOf(r) = 500
               /\ inv[r].response.body.success = FALSE
               /\ inv[r].response.body.error = "Internal server error"
               /\ DOMAIN storage = {}

C8_Witness ==
    \E r \in Slots :
        /\ inv[r].variant = "ts"
        /\ inv[r].src.kind = "reject"
        /\ inv[r].event.body.id.v = P1
        /\ Len(LogOf(r)) = 1 /\ ~LogOf(r)[1].ok
        /\ StatusOf(r) = 500

\* C9 (as stated): a request whose body is absent or cannot be parsed as JSON
\* is rejected with status 400, not 500, and causes no storage write.
C9_UnparseableBodyIs400 ==
    \A r \in Slots :
        (Done(r) /\ inv[r].event.body.kind \in {"none", "malformed"} /\ ~IsPreflight(r))
            => /\ StatusOf(r) = 400
               /\ LogOf(r) = <<>>
\* the expiry of a data row, read at the header's expire_timestamp column: a
\* number when the cell is a numeral, none when the cell is missing or not numeric
ExpiryOf(src, row) ==
    LET e == CHOOSE c \in 1..Len(src.header) : src.header[c] = <<"expire_timestamp">>
    IN  IF e <= Len(row) /\ Len(row[e]) = 1
        THEN {n \in Numerals : ToString(n) = row[e][1]}
        ELSE {}

\* the names of the rows whose expiry is a number strictly greater than now,
\* in source row order
LiveSegments(src, now) ==
    LET s == CHOOSE c \in 1..Len(src.header) : src.header[c] = <<"segments">>
        Live(row) == \E t \in ExpiryOf(src, row) : t > now
        rows == SelectSeq(src.rows, Live)
    IN  [i \in 1..Len(rows) |-> rows[i][s]]

\* C10 (as stated): the resolved segment list of a response holds exactly the
\* segment names of the source rows whose expire_timestamp is strictly greater
\* than the handler's current time, in row order; a row with expiry <= now, or
\* with a non-numeric or missing expiry, is left out.
C10_ResolvedSegmentsAreLiveRows ==
    \A r \in Slots :
        (Done(r) /\ StatusOf(r) = 200 /\ inv[r].src.kind = "table")
            => inv[r].response.body.segments = LiveSegments(inv[r].src, inv[r].now)

\* the same, of the TypeScript handler alone
C10_ResolvedSegmentsAreLiveRowsTS ==
    \A r \in Slots :
        (Done(r) /\ StatusOf(r) = 200 /\ inv[r].src.kind = "table"
            /\ inv[r].variant = "ts")
            => inv[r].response.body.segments = LiveSegments(inv[r].src, inv[r].now)

---------------------------------------------------------------------------
\* the segment read of invocation r has settled
Resolved(r) == inv[r].src # NoSource

\* two requests that differ in their timestamp field at most
SameButTimestamp(e1, e2) ==
    /\ e1.httpMethod = e2.httpMethod
    /\ e1.origin = e2.origin
    /\ [e1.body EXCEPT !.timestamp = Absent(0)] = [e2.body EXCEPT !.timestamp = Absent(0)]

\* C11: two requests that differ only in their client-supplied timestamp,
\* processed by the same handler at the same handler time against the same
\* segment source, are given the same resolved segment list (and the same
\* status).
C11_SegmentsIndependentOfClientTimestamp ==
    \A r1, r2 \in DOMAIN inv :
        (/\ Resolved(r1) /\ Resolved(r2)
         /\ inv[r1].variant = inv[r2].variant
         /\ inv[r1].src = inv[r2].src
         /\ inv[r1].now = inv[r2].now
         /\ SameButTimestamp(inv[r1].event, inv[r2].event))
        => /\ inv[r1].validSegments = inv[r2].validSegments
           /\ (Done(r1) /\ Done(r2) /\ StatusOf(r1) = 200 /\ StatusOf(r2) = 200
                  => inv[r1].response.body.segments = inv[r2].response.body.segments)

\* two answered requests whose timestamps lie on either side of the expiry of
\* the one row they were both given, at a handler time before it
C11_Witness ==
    /\ 1 \in DOMAIN inv /\ 2 \in DOMAIN inv
    /\ Done(1) /\ Done(2) /\ StatusOf(1) = 200 /\ StatusOf(2) = 200
    /\ inv[1].variant = inv[2].variant
    /\ inv[1].src = inv[2].src /\ inv[1].now = inv[2].now
    /\ inv[1].src = SrcTable(StdHeader, << <<<<"segA">>, NumStr(2)>> >>)
    /\ inv[1].now = 1
    /\ inv[1].event.body.timestamp.v = 1
    /\ inv[2].event.body.timestamp.v = 2
    /\ inv[1].validSegments = << <<"segA">> >>
    /\ inv[2].validSegments = << <<"segA">> >>

---------------------------------------------------------------------------
(* Vocabulary of the client claims *)

\* an explicit identifier was supplied: the argument is given and is not ''
Supplied(id) == id.has /\ id.v # <<>>

\* the identifier the store holds, as far as it can be read
StoredIdentifier == IF localStorage.works THEN localStorage.item ELSE Absent(<<>>)

\* an identifier of the generated form <namespace>-<random part>
Generated(id) == \E rand \in RandomParts : id = <<"publisher", "-">> \o rand

\* call c is made in this step
Starts(c) == calls[c].pc = "idle" /\ calls'[c].pc # "idle"

\* C12: setID resolves the identifier as explicitId if supplied, else the stored
\* identifier if present, else a freshly generated one; the resolution stays
\* fixed, the call does not reject and what it returns is that identifier,
\* whatever the consent and network outcomes; a functioning store holds the
\* identifier from the step that resolves it, and no later step of the call
\* changes the store.  (Second variant of the client, the one the claim cites.)
C12_SetIDResolvesStoresAndReturns ==
    [][impl.variant = "v2" =>
        /\ \A c \in DOMAIN calls :
              /\ Starts(c) =>
                    /\ calls'[c].useId =
                          IF Supplied(calls'[c].id) THEN calls'[c].id.v
                          ELSE IF StoredIdentifier.has THEN StoredIdentifier.v
                          ELSE calls'[c].useId
                    /\ (~Supplied(calls'[c].id) /\ ~StoredIdentifier.has)
                          => Generated(calls'[c].useId)
                    /\ localStorage.works
                          => localStorage'.item = Present(calls'[c].useId)
              /\ calls[c].pc # "idle" => calls'[c].useId = calls[c].useId
              /\ calls'[c].pc # "rejected"
              /\ calls'[c].pc = "returned"
                    => calls'[c].result = Present(calls'[c].useId)
        /\ (\A c \in DOMAIN calls : ~Starts(c)) => localStorage' = localStorage
      ]_vars

\* a call without arguments on an empty store returned its generated
\* identifier, the store holding it, after the consent promise rejected and
\* the fetch failed
C12_Witness ==
    /\ impl.variant = "v2"
    /\ 1 \in DOMAIN calls
    /\ calls[1].pc = "returned"
    /\ ~calls[1].id.has /\ ~calls[1].storedId.has
    /\ window.gpp = Gpp("throws")
    /\ calls[1].fetched = "network"
    /\ Generated(calls[1].useId)
    /\ calls[1].result = Present(calls[1].useId)
    /\ localStorage.item = Present(calls[1].useId)

\* call c sends an identity event in this step
Sends(c) == Len(calls'[c].sent) = Len(calls[c].sent) + 1

\* the event call c sends in this step
SentNow(c) == calls'[c].sent[Len(calls'[c].sent)]

\* C13: the identity event of a setID call carries a previousId if and only if
\* an explicitId was supplied, the store held an identifier when the call was
\* made, and the two differ; the previousId is then that prior stored
\* identifier.  (Both variants.)
C13_PreviousIdIffPublisherChange ==
    [][\A c \in DOMAIN calls :
          /\ Starts(c) => calls'[c].storedId = StoredIdentifier
          /\ calls[c].pc # "idle" =>
                calls'[c].storedId = calls[c].storedId /\ calls'[c].id = calls[c].id
          /\ Sends(c) =>
                /\ SentNow(c).previousId.has
                      <=> /\ Supplied(calls[c].id)
                          /\ calls[c].storedId.has
                          /\ calls[c].id.v # calls[c].storedId.v
                /\ SentNow(c).previousId.has
                      => SentNow(c).previousId.v = calls[c].storedId.v
      ]_vars

\* a call that supplied publisher-2 over a stored publisher-1 sent its event
\* with previousId publisher-1
C13_Witness ==
    /\ 1 \in DOMAIN calls
    /\ calls[1].pc = "backend"
    /\ calls[1].id = Present(<<"publisher", "-", "2">>)
    /\ calls[1].storedId = Present(<<"publisher", "-", "1">>)
    /\ Len(calls[1].sent) = 1
    /\ calls[1].sent[1].previousId = Present(<<"publisher", "-", "1">>)

\* C14: client round-trip.  setID() on an empty (functioning) store generates
\* an identifier, stores it, sends exactly one identity event carrying it and
\* returns it; a second setID() without arguments resolves and returns the
\* same identifier, leaves the store as it was, and sends exactly one event,
\* with previousId absent.
C14_ClientRoundTrip ==
    [][LET first == calls'[1]
           second == calls'[2]
       IN  (/\ localStorage.works
            /\ first.pc # "idle" /\ ~first.id.has /\ ~first.storedId.has) =>
               /\ Generated(first.useId)
               /\ Starts(1) => localStorage'.item = Present(first.useId)
               /\ Len(first.sent) <= 1
               /\ first.pc = "returned" =>
                     /\ Len(first.sent) = 1
                     /\ first.sent[1].id = Present(first.useId)
                     /\ first.result = Present(first.useId)
               /\ (second.pc # "idle" /\ ~second.id.has) =>
                     /\ second.useId = first.useId
                     /\ Starts(2) => localStorage' = localStorage
                     /\ Len(second.sent) <= 1
                     /\ second.pc = "returned" =>
                           /\ Len(second.sent) = 1
                           /\ second.sent[1].id = Present(first.useId)
                           /\ ~second.sent[1].previousId.has
                           /\ second.result = Present(first.useId)
      ]_vars

\* both calls of a round trip have returned
C14_Witness ==
    /\ DOMAIN calls = {1, 2}
    /\ localStorage.works
    /\ calls[1].pc = "returned" /\ ~calls[1].id.has /\ ~calls[1].storedId.has
    /\ calls[2].pc = "returned" /\ ~calls[2].id.has
    /\ calls[2].storedId = Present(calls[1].useId)
    /\ calls[2].result = calls[1].result
    /\ Len(calls[1].sent) = 1 /\ Len(calls[2].sent) = 1
    /\ ~calls[2].sent[1].previousId.has
    /\ localStorage.item = Present(calls[1].useId)

\* the backend call of call c ends in failure in this step: a network error, or
\* a response that is not 2xx
BackendFails(c) ==
    /\ calls[c].pc = "backend" /\ calls'[c].pc # "backend"
    /\ calls'[c].fetched \in {"network", "status"}

\* C15: when the call to the backend fails, setID does not reject and returns
\* the resolved identifier; the in-memory segment set becomes exactly
\* publisherSegments if they were supplied, and is otherwise left as it was.
\* (Second variant of the client, the one the claim cites.)
C15_BackendFailureFallsBackToPublisherSegments ==
    [][\A c \in DOMAIN calls :
          (impl.variant = "v2" /\ BackendFails(c)) =>
              /\ calls'[c].pc = "returned"
              /\ calls'[c].result = Present(calls[c].useId)
              /\ impl'.segments = IF calls[c].publisherSegments.has
                                  THEN calls[c].publisherSegments.v
                                  ELSE impl.segments
      ]_vars

\* a call given publisher segments returned after a response that was not ok,
\* the segment set being the publisher's, after another call had set the
\* backend's
C15_Witness ==
    /\ impl.variant = "v2"
    /\ DOMAIN calls = {1, 2}
    /\ calls[1].pc = "returned" /\ calls[1].fetched = "json"
    /\ calls[1].events # <<>>
    /\ calls[1].events[Len(calls[1].events)].segments = << <<"segA">> >>
    /\ calls[2].pc = "returned" /\ calls[2].fetched = "status"
    /\ calls[2].publisherSegments = Present(<< <<"Pub", "-", "Seg">> >>)
    /\ calls[2].result = Present(calls[2].useId)
    /\ impl.segments = << <<"Pub", "-", "Seg">> >>

\* the meta tags of the head are those of the segments: one per segment key
TagsOf(segments) ==
    {<< <<"newspass_segment_">> \o SegmentKey(segments[i]), segments[i] >> :
        i \in 1..Len(segments)}

\* call c emits the "segments ready" notification for the segments in this step
EmitsReady(c, segments) ==
    \E i \in (Len(calls[c].events) + 1)..Len(calls'[c].events) :
        /\ calls'[c].events[i].type = "newspass_segments_ready"
        /\ calls'[c].events[i].segments = segments

\* C16: on a backend failure with publisherSegments supplied, the client takes
\* the application steps of the success path with the publisher segments: the
\* ad-platform targeting is set, the page metadata is injected (when enabled),
\* and the "segments ready" notification is emitted.  (Second variant.)
C16_FallbackTakesTheSuccessSteps ==
    [][\A c \in DOMAIN calls :
          (/\ impl.variant = "v2" /\ BackendFails(c)
           /\ calls[c].publisherSegments.has) =>
              /\ window'.npid_segments = calls[c].publisherSegments
              /\ window'.newspass_segments = calls[c].publisherSegments
              /\ impl.injectMetaTags
                    => window'.metaTags = TagsOf(calls[c].publisherSegments.v)
              /\ EmitsReady(c, calls[c].publisherSegments.v)
      ]_vars

\* (the first two steps of C16 alone: targeting and metadata)
C16_FallbackSetsTargetingAndMetadata ==
    [][\A c \in DOMAIN calls :
          (/\ impl.variant = "v2" /\ BackendFails(c)
           /\ calls[c].publisherSegments.has) =>
              /\ window'.npid_segments = calls[c].publisherSegments
              /\ window'.newspass_segments = calls[c].publisherSegments
              /\ impl.injectMetaTags
                    => window'.metaTags = TagsOf(calls[c].publisherSegments.v)
      ]_vars

\* consent resolution fails on this page: the resolver rejects (the API call
\* throws), or it returns absent (no usable API signal and no consent cookie)
ConsentFailure ==
    \/ window.gpp.kind = "throws"
    \/ /\ \/ window.gpp.kind = "absent"
          \/ /\ window.gpp.kind = "callback"
             /\ ~(window.gpp.success /\ window.gpp.data.has /\ window.gpp.data.v # <<>>)
       /\ window.cookie = [gpp |-> <<>>, usprivacy |-> <<>>, euconsent |-> <<>>]

\* the consent resolution of call c ends in this step
ConsentEnds(c) == calls[c].pc = "consent" /\ calls'[c].pc # "consent"

\* C17: if consent resolution fails (the resolver rejects or returns absent),
\* setID does not reject: it sends the identity event with the empty string
\* as consentString, and what it returns is the resolved identifier.  (Both
\* variants.)
C17_ConsentFailureIsNotFatal ==
    [][\A c \in DOMAIN calls :
          /\ (ConsentFailure /\ ConsentEnds(c)) =>
                /\ calls'[c].pc = "backend"
                /\ Sends(c)
                /\ SentNow(c).consentString = Present(<<>>)
                /\ SentNow(c).id = Present(calls[c].useId)
          /\ (ConsentFailure /\ calls'[c].pc = "returned")
                => calls'[c].result = Present(calls'[c].useId)
      ]_vars

\* (C17 for the second variant alone)
C17_ConsentFailureIsNotFatalV2 ==
    [][\A c \in DOMAIN calls :
          impl.variant = "v2" =>
              /\ (ConsentFailure /\ ConsentEnds(c)) =>
                    /\ calls'[c].pc = "backend"
                    /\ Sends(c)
                    /\ SentNow(c).consentString = Present(<<>>)
                    /\ SentNow(c).id = Present(calls[c].useId)
              /\ (ConsentFailure /\ calls'[c].pc = "returned")
                    => calls'[c].result = Present(calls'[c].useId)
      ]_vars

\* C18: consent resolution never blocks indefinitely.  In finite-run form: a
\* call that awaits getGppConsentString() always has its next step to take
\* (the promise settles), even on a page whose consent API is present but
\* never invokes its callback.
C18_ConsentResolutionCompletes ==
    \A c \in DOMAIN calls :
        calls[c].pc = "consent"
            => ENABLED (/\ \E now \in Nows : setID_Consent(c, now)
                        /\ UNCHANGED <<serverVars, loader, page>>)

\* the consent API reports its signal: the callback comes with success and a
\* non-empty gppString
ApiSignal ==
    /\ window.gpp.kind = "callback"
    /\ window.gpp.success /\ window.gpp.data.has /\ window.gpp.data.v # <<>>

\* the first non-empty cookie value in the order gpp, usprivacy, euconsent-v2,
\* or absent if none is set
FirstCookie ==
    LET order == <<window.cookie.gpp, window.cookie.usprivacy, window.cookie.euconsent>>
        set == {i \in 1..3 : order[i] # <<>>}
    IN  IF set = {} THEN Absent(<<>>)
        ELSE Present(order[CHOOSE i \in set : \A j \in set : i <= j])

\* C19: the consent resolver returns the API's signal when the callback
\* reports success with a non-empty gppString, and in every other case (API
\* absent, API call throws, callback reporting failure or an empty signal)
\* the first non-empty cookie value, or absent.  What the resolver returned is
\* what setID has assigned to this.consentString when its await ends.
C19_ResolverReturnsSignalOrFirstCookie ==
    [][\A c \in DOMAIN calls :
          ConsentEnds(c) =>
              /\ calls'[c].pc = "backend"
              /\ impl'.consentString =
                    IF ApiSignal THEN Present(window.gpp.data.v) ELSE FirstCookie
      ]_vars

\* (C19 on the pages whose consent API does not throw)
C19_ResolverReturnsSignalOrFirstCookieUnlessThrown ==
    [][\A c \in DOMAIN calls :
          (ConsentEnds(c) /\ window.gpp.kind # "throws") =>
              /\ calls'[c].pc = "backend"
              /\ impl'.consentString =
                    IF ApiSignal THEN Present(window.gpp.data.v) ELSE FirstCookie
      ]_vars

---------------------------------------------------------------------------
(* The loader *)

Replaced == loader.handle = "real"

\* C20: once the real client is constructed, every call the stub buffered is
\* dispatched against the real client exactly once and in the order the calls
\* were made: what was dispatched, followed by what still waits, is what was
\* buffered, and a dispatched setID starts one call of the real client with the
\* buffered id.  window.newspassid is replaced by the real client only when all
\* of it has been dispatched; from then on the queue is empty and nothing more
\* is buffered.
C20_BufferDrainedInOrderThenReplaced ==
    [][/\ loader'.buffered = loader'.dispatched \o loader'.newspassid_q
       /\ Len(loader'.dispatched) > Len(loader.dispatched)
            => /\ loader.pc = "draining"
               /\ loader'.dispatched
                    = Append(loader.dispatched, loader.buffered[Len(loader'.dispatched)])
               /\ loader.buffered[Len(loader'.dispatched)].method = "setID"
                    => /\ Starts(NextCall)
                       /\ calls'[NextCall].id
                            = loader.buffered[Len(loader'.dispatched)].id
                       /\ \A c \in DOMAIN calls \ {NextCall} : calls'[c] = calls[c]
       /\ Replaced'
            => /\ loader'.dispatched = loader'.buffered
               /\ loader'.newspassid_q = <<>>
       /\ Replaced => Replaced' /\ loader'.buffered = loader.buffered]_vars

\* two calls were buffered, setID with an id and then clearID; both were
\* dispatched, in that order, and the real client is in place
C20_Witness ==
    /\ Replaced
    /\ loader.dispatched = <<Item("setID", Present(P2)), Item("clearID", Absent(<<>>))>>
    /\ calls[1].id = Present(P2)
    /\ calls[1].pc # "idle"
    /\ ~localStorage.item.has

\* the setID entries the loop has dispatched
DispatchedSetIDs ==
    {i \in 1..Len(loader.dispatched) : loader.dispatched[i].method = "setID"}

\* C21: the loader issues its default setID() if and only if no setID call was
\* queued before the real client loaded: once the onload handler has returned,
\* the timer of the default call is set (or has fired) exactly when the loop
\* dispatched no setID, so a session with a queued setID has one setID
\* execution on the real client from the loader, not two.
C21_DefaultSetIDIffNoneQueued ==
    loader.pc = "loaded"
        => (loader.timer \in {"armed", "fired"} <=> DispatchedSetIDs = {})

\* C22: an error raised by the execution of a queued entry is caught: the loop
\* goes on, so whatever still waits has its round of the loop to take, the
\* later entries are dispatched, and at the end of the loop window.newspassid
\* is replaced by the real client.
C22_EntryErrorDoesNotStopTheDrain ==
    loader.errors # <<>>
        => /\ loader.pc \in {"draining", "loaded"}
           /\ loader.buffered = loader.dispatched \o loader.newspassid_q
           /\ loader.pc = "draining" /\ loader.newspassid_q # <<>> => ENABLED OnloadDrain
           /\ loader.pc = "draining" /\ loader.newspassid_q = <<>> => ENABLED OnloadFinish
           /\ loader.pc = "loaded" => Replaced /\ loader.newspassid_q = <<>>

\* the first of two entries threw, the second was dispatched after it and the
\* real client is in place
C22_Witness ==
    /\ Replaced
    /\ loader.errors = <<Item("getID", Absent(<<>>))>>
    /\ loader.dispatched = <<Item("getID", Absent(<<>>)), Item("setID", Present(P2))>>
    /\ calls[1].id = Present(P2)
    /\ calls[1].pc # "idle"

\* the round of the loop that dispatches the i-th call made on the stub
Dispatches(i) ==
    /\ Len(loader.dispatched) = i - 1
    /\ Len(loader'.dispatched) = i

\* C23: every call made on the not-yet-loaded client is buffered with its
\* method name and all of its arguments and replayed with the same arguments:
\* the i-th entry dispatched has the method of the i-th call made, and when
\* that call is setID(id, publisherSegments) the real client's setID is started
\* with that id and those publisherSegments.
C23_ReplayedWithAllArguments ==
    [][\A i \in 1..Len(loader.made) :
          Dispatches(i)
            => /\ loader'.dispatched[i].method = loader.made[i].method
               /\ loader.made[i].method = "setID"
                    => /\ Starts(NextCall)
                       /\ calls'[NextCall].id = loader.made[i].id
                       /\ calls'[NextCall].publisherSegments
                            = loader.made[i].publisherSegments]_vars

---------------------------------------------------------------------------
(* The other operations of the client *)

\* a step in which the page calls clearID()
ClearIDReturns == page'.clears = page.clears + 1

\* C24: from any client state, clearID() returns leaving the store without an
\* identifier (getID() gives null), the in-memory segment set empty
\* (getSegments() gives []) and no segment meta tag in the page head, also
\* when the removal from the store fails.
C24_ClearIDEmptiesStoreSegmentsAndTags ==
    [][ClearIDReturns
         => /\ ~getID(localStorage').has
            /\ getSegments(impl').v = <<>>
            /\ window'.metaTags = {}]_vars

\* the same, for a store whose removeItem does not throw (holds)
C24_ClearIDEmptiesWhenRemovalWorks ==
    [][ClearIDReturns /\ localStorage.works
         => /\ ~getID(localStorage').has
            /\ getSegments(impl').v = <<>>
            /\ window'.metaTags = {}]_vars

\* a step in which the page reads with getID() or getSegments(), or changes
\* the array getSegments() gave it
ReadStep == page' # page /\ page'.clears = page.clears

\* C25: getID() and getSegments() are pure reads: they change neither the
\* store nor the in-memory segment set and send no event, and they give the
\* stored identifier and the elements of the segment set; getSegments() gives
\* a copy, so a change of the array it returned changes nothing for the client
\* and a later getSegments() still gives the segment set.
C25_ReadsArePureAndSegmentsCopied ==
    [][ReadStep
         => /\ localStorage' = localStorage
            /\ impl' = impl
            /\ calls' = calls
            /\ window' = window
            /\ storage' = storage
            /\ page'.id # page.id => page'.id = getStoredId(localStorage)
            /\ getSegments(impl').v = impl.segments]_vars

\* the page holds the array of an earlier getSegments() with an element of its
\* own pushed onto it, and the client's segment set is as the backend gave it
C25_Witness ==
    /\ page.segments = Present(<< <<"segA">>, <<"mine">> >>)
    /\ impl.segments = << <<"segA">> >>
    /\ getID(localStorage) = Present(P2)
    /\ page.id = Present(P2)

---------------------------------------------------------------------------
(* The segments of a successful backend call *)

\* the backend call of c succeeds in this step with a response that carries a
\* segment list
SucceedsWithSegments(c) ==
    /\ calls[c].pc = "backend" /\ calls'[c].pc # "backend"
    /\ calls'[c].fetched = "json"
    /\ calls'[c].response.has

\* C26: when the backend call succeeds and the response carries a segment
\* list S, setID returns the identifier with getSegments() equal to S (an empty
\* S and supplied publisherSegments included), S applied to the ad-platform
\* targeting, and a "segments ready" notification carrying S emitted.
C26_ResponseSegmentsAdoptedAppliedAnnounced ==
    [][\A c \in DOMAIN calls :
          SucceedsWithSegments(c)
            => /\ calls'[c].pc = "returned"
               /\ calls'[c].result = Present(calls[c].useId)
               /\ getSegments(impl').v = calls'[c].response.v
               /\ window'.npid_segments = calls'[c].response
               /\ window'.newspass_segments = calls'[c].response
               /\ EmitsReady(c, calls'[c].response.v)]_vars

\* a call made with publisherSegments has returned on a response whose segment
\* list is empty: the segment set and the targeting are empty
C26_Witness ==
    \E c \in DOMAIN calls :
        /\ calls[c].pc = "returned"
        /\ calls[c].fetched = "json"
        /\ calls[c].response = Present(<<>>)
        /\ calls[c].publisherSegments = Present(<< <<"Pub", "-", "Seg">> >>)
        /\ impl.segments = <<>>
        /\ window.npid_segments = Present(<<>>)
        /\ \E i \in DOMAIN calls[c].events :
              calls[c].events[i].type = "newspass_segments_ready"

---------------------------------------------------------------------------
(* The segment metadata of the page head *)

\* a page of the second variant with injection enabled whose DOM works
Injecting ==
    /\ impl.variant = "v2"
    /\ impl.injectMetaTags
    /\ ~window.createElementThrows

\* C27: with metadata injection enabled, the segment metadata of the page head
\* corresponds exactly to the current in-memory segment set, after any
\* sequence of setID and clearID calls: one entry for each segment of the set,
\* and no entry for a segment of an earlier set.
C27_MetadataIsThatOfTheSegmentSet ==
    Injecting => window.metaTags = TagsOf(impl.segments)

\* no entry of an earlier set remains: every entry is that of a current
\* segment (holds)
C27_NoStaleMetadata ==
    Injecting => window.metaTags \subseteq TagsOf(impl.segments)

\* call c leaves its await of sendToBackend in this step, on a page where
\* injection is enabled and document.createElement throws
SettlesWhereInjectionFails(c) ==
    /\ calls[c].pc = "backend" /\ calls'[c].pc # "backend"
    /\ impl.variant = "v2"
    /\ impl.injectMetaTags
    /\ window.createElementThrows

\* C28: a failure while injecting segment metadata into the page never makes
\* setID reject: the call returns the resolved identifier, for every backend
\* outcome and with publisherSegments supplied or not.
C28_InjectionFailureIsNotFatal ==
    [][\A c \in DOMAIN calls :
          SettlesWhereInjectionFails(c)
            => /\ calls'[c].pc = "returned"
               /\ calls'[c].result = Present(calls[c].useId)]_vars

\* the same for calls made without publisherSegments (holds)
C28_InjectionFailureIsNotFatalWithoutPublisherSegments ==
    [][\A c \in DOMAIN calls :
          SettlesWhereInjectionFails(c) /\ ~calls[c].publisherSegments.has
            => /\ calls'[c].pc = "returned"
               /\ calls'[c].result = Present(calls[c].useId)]_vars

---------------------------------------------------------------------------
(* The "identifier changed" notification *)

\* call c dispatches 'newspassid:change' for the identifier in this step
EmitsChange(c, id) ==
    \E i \in (Len(calls[c].events) + 1)..Len(calls'[c].events) :
        /\ calls'[c].events[i].type = "newspassid:change"
        /\ calls'[c].events[i].id = id

\* call c dispatches 'newspassid:change' in this step
EmitsAnyChange(c) ==
    \E i \in (Len(calls[c].events) + 1)..Len(calls'[c].events) :
        calls'[c].events[i].type = "newspassid:change"

\* C29: setID emits the "identifier changed" notification, carrying the
\* resolved identifier, and writes the store if and only if the resolved
\* identifier differs from the one stored before the call: a call that
\* resolves to the stored identifier emits no such notification and leaves
\* the store as it is, and no later step of a call emits one.  (Second
\* variant of the client, the one the claim cites.)
C29_ChangeNotifiedIffIdentifierDiffers ==
    [][impl.variant = "v2"
         => \A c \in DOMAIN calls :
               /\ Starts(c) /\ StoredIdentifier # Present(calls'[c].useId)
                    => /\ EmitsChange(c, calls'[c].useId)
                       /\ localStorage.works
                            => localStorage'.item = Present(calls'[c].useId)
               /\ Starts(c) /\ StoredIdentifier = Present(calls'[c].useId)
                    => /\ ~EmitsAnyChange(c)
                       /\ localStorage' = localStorage
               /\ ~Starts(c) => ~EmitsAnyChange(c)]_vars

\* a call with the stored identifier given explicitly has returned without a
\* notification, after a call that changed the identifier and notified it
C29_Witness ==
    /\ impl.variant = "v2"
    /\ calls[1].pc = "returned" /\ calls[2].pc = "returned"
    /\ calls[1].id = Present(P2) /\ calls[1].storedId = Present(P1)
    /\ \E i \in DOMAIN calls[1].events :
          calls[1].events[i] = CustomEvent("newspassid:change", P2, <<>>, <<>>)
    /\ calls[2].id = Present(P2) /\ calls[2].storedId = Present(P2)
    /\ \A i \in DOMAIN calls[2].events :
          calls[2].events[i].type # "newspassid:change"

---------------------------------------------------------------------------
(* CORS *)

\* the allowed origin the claim states for an event: its origin header, or '*'
EchoedOrigin(event) == IF event.origin.has THEN event.origin.v ELSE <<"*">>

\* C30: every response of the ingestion handler (200, 400 and 500 alike)
\* carries CORS headers whose allowed origin echoes the request's origin
\* header, or is '*' when the request has none; an OPTIONS preflight is
\* answered 200 with an empty body and without any storage read or write.
C30_CorsEchoesOriginAndPreflightIsEmpty ==
    \A r \in DOMAIN inv :
        inv[r].pc = "done"
            => /\ inv[r].response.headers.allowOrigin = EchoedOrigin(inv[r].event)
               /\ inv[r].event.httpMethod = "OPTIONS"
                    => /\ inv[r].response.statusCode = 200
                       /\ inv[r].response.body = EmptyBody
                       /\ inv[r].log = <<>>

\* the same for the TypeScript handler alone (holds)
C30_CorsEchoesOriginAndPreflightIsEmptyTS ==
    \A r \in DOMAIN inv :
        inv[r].pc = "done" /\ inv[r].variant = "ts"
            => /\ inv[r].response.headers.allowOrigin = EchoedOrigin(inv[r].event)
               /\ inv[r].event.httpMethod = "OPTIONS"
                    => /\ inv[r].response.statusCode = 200
                       /\ inv[r].response.body = EmptyBody
                       /\ inv[r].log = <<>>

---------------------------------------------------------------------------
(* Vocabulary of the storage claims *)

\* invocation r completed a successful write of its event record
WroteEvent(r) == \E i \in PutsAt(r, "event") : LogOf(r)[i].ok

\* the key and the body of that write
EventWrite(r) == LogOf(r)[CHOOSE i \in PutsAt(r, "event") : LogOf(r)[i].ok]

\* the keys under which the bucket holds an event record of identifier id at
\* timestamp ts
EventRecordsOf(id, ts) ==
    {k \in DOMAIN storage :
        /\ storage[k].header = EventHeader
        /\ storage[k].row[1] = id
        /\ storage[k].row[2] = <<ToString(ts)>>}

\* two events of the same identifier and the same url
SameIdAndUrl(e1, e2) == e1.body.id = e2.body.id /\ e1.body.url = e2.body.url

\* C31: two requests of the same identifier and url that the same handler has
\* written: if their timestamps are equal they wrote the same storage key and
\* the bucket holds one event record of that identifier and timestamp; if their
\* timestamps differ they wrote different keys, and each key still holds the
\* record its request wrote.
C31_ResubmissionOverwritesNewTimestampAdds ==
    \A r1, r2 \in DOMAIN inv :
        (/\ r1 # r2
         /\ WroteEvent(r1) /\ WroteEvent(r2)
         /\ inv[r1].variant = inv[r2].variant
         /\ SameIdAndUrl(inv[r1].event, inv[r2].event))
        => LET b1 == inv[r1].event.body
               b2 == inv[r2].event.body
           IN  IF b1.timestamp = b2.timestamp
               THEN /\ EventWrite(r1).key = EventWrite(r2).key
                    /\ Cardinality(EventRecordsOf(b1.id.v, b1.timestamp.v)) = 1
               ELSE /\ EventWrite(r1).key # EventWrite(r2).key
                    /\ EventWrite(r1).key \in DOMAIN storage
                    /\ storage[EventWrite(r1).key] = EventWrite(r1).body
                    /\ EventWrite(r2).key \in DOMAIN storage
                    /\ storage[EventWrite(r2).key] = EventWrite(r2).body

\* both requests of one handler were written, the second with a later
\* timestamp, and the bucket holds two event records
C31_Witness ==
    /\ 1 \in DOMAIN inv /\ 2 \in DOMAIN inv
    /\ WroteEvent(1) /\ WroteEvent(2)
    /\ inv[1].variant = inv[2].variant
    /\ SameIdAndUrl(inv[1].event, inv[2].event)
    /\ inv[1].event.body.timestamp.v = 1
    /\ inv[2].event.body.timestamp.v = 2
    /\ Cardinality(DOMAIN storage) = 2

\* an identical event was written twice and the bucket holds one record
C31_Resubmitted ==
    /\ 1 \in DOMAIN inv /\ 2 \in DOMAIN inv
    /\ WroteEvent(1) /\ WroteEvent(2)
    /\ inv[1].variant = inv[2].variant
    /\ inv[1].event = inv[2].event
    /\ Cardinality(DOMAIN storage) = 1

---------------------------------------------------------------------------
(* Specification: two requests that may succeed one another's identifier *)

N1 == <<"news", "-", "1">>

\* a previousId that names a path below an identifier (the field is not validated)
P1Slash1 == <<"publisher", "-", "1", "/", "1">>

\* accepted-looking requests: a publisher or a news identifier, on a site
\* named example.com or mappings, with or without previousId and
\* publisherSegments
SuccessionEvents ==
    {EventOf("POST", Absent(<<>>),
             BodyOf("object", Present(id), Present(ts), Present(url),
                    Present(<<"consent123">>), prev, ps)) :
        id \in {P1, N1},
        ts \in 1..MaxTs,
        url \in {<<"https://", "example.com">>, <<"https://", "mappings">>},
        prev \in Optional({P2, P1Slash1}, <<>>),
        ps \in Optional({<< <<"seg1">>, <<"seg2">> >>}, <<>>)}

\* a table with one live row, and a missing object
SuccessionSources ==
    {SrcTable(StdHeader, << <<<<"segA">>, NumStr(MaxNow + 1)>> >>),
     SrcReject("NoSuchKey")}

SuccStartTS ==
    /\ \E r \in PairSlots :
           inv[r].pc = "idle" /\ \E event \in SuccessionEvents : handlerTS_Start(r, event)
    /\ UNCHANGED clientVars
SuccSegmentsTS ==
    /\ \E r \in PairSlots :
           /\ inv[r].pc = "getSegments" /\ inv[r].variant = "ts"
           /\ \E src \in SuccessionSources : handlerTS_Segments(r, src, 1)
    /\ UNCHANGED clientVars
SuccStartJS ==
    /\ \E r \in PairSlots :
           inv[r].pc = "idle" /\ \E event \in SuccessionEvents : handlerJS_Start(r, event)
    /\ UNCHANGED clientVars
SuccSegmentsJS ==
    /\ \E r \in PairSlots :
           /\ inv[r].pc = "getSegments" /\ inv[r].variant = "js"
           /\ \E src \in SuccessionSources : handlerJS_Segments(r, src, 1)
    /\ UNCHANGED clientVars

NextSuccession ==
    \/ SuccStartTS
    \/ SuccSegmentsTS
    \/ PutEventTS
    \/ PutMappingTS
    \/ SuccStartJS
    \/ SuccSegmentsJS
    \/ PutEventJS
    \/ PutMappingJS

SpecSuccession == InitPair /\ [][NextSuccession]_vars

\* the keys under which the bucket holds a mapping record of old identifier prev
MappingRecordsOf(store, prev) ==
    {k \in DOMAIN store :
        store[k].header = MappingHeader /\ store[k].row[1] = prev}

\* invocation r's write of its mapping record is applied in this step
AppliesMapping(r) ==
    /\ inv[r].pc = "putMapping"
    /\ inv'[r].pc = "done"
    /\ inv'[r].response.statusCode = 200

\* every request so far was handled by the given handler
OnlyVariant(variant) == \A q \in DOMAIN inv : inv[q].variant \in {"", variant}

\* after a mapping write of the given handler is applied, the bucket holds
\* exactly one mapping record of the request's previousId, and that record is
\* in full the (previousId, id, timestamp) row of the request
OneMappingRecord(variant) ==
    \A r \in DOMAIN inv :
        (OnlyVariant(variant) /\ AppliesMapping(r))
        => LET b == inv[r].event.body
           IN  /\ Cardinality(MappingRecordsOf(storage', b.previousId.v)) = 1
               /\ \A k \in MappingRecordsOf(storage', b.previousId.v) :
                      storage'[k].row = <<b.previousId.v, b.id.v,
                                          <<ToString(b.timestamp.v)>> >>

\* C32 (as stated): there is one succession mapping record per old identifier.
\* After any interleaving of successful ingestions that carry the same
\* previousId, whatever their new identifiers, the bucket holds exactly one
\* mapping record of that previousId, and it is in full the (oldId, newId,
\* timestamp) row of the request whose write was applied last.
C32_OneMappingRecordPerPreviousId ==
    [][OneMappingRecord("ts") /\ OneMappingRecord("js")]_vars

\* the same of the TypeScript handler alone, whose mapping key has the fixed
\* namespace "publisher"
C32_OneMappingRecordTS == [][OneMappingRecord("ts")]_vars

---------------------------------------------------------------------------
(* Identifier format *)

\* the JavaScript handler applied isValidId to the identifier of request r:
\* the body was parsed and none of its required fields is missing
AppliedIsValidId(r) ==
    /\ inv[r].variant = "js"
    /\ ParsedBody(r)
    /\ ~LacksRequired(inv[r].event.body)
    /\ inv[r].event.body.timestamp.v # 0

\* the request was turned away by the identifier format check
RejectedAsInvalidId(r) ==
    /\ Done(r)
    /\ StatusOf(r) = 400
    /\ inv[r].response.body.error = "Invalid ID format"

\* C33 (as stated): isValidId accepts a string if and only if it consists of at
\* least two non-empty dash-separated components; it rejects the empty string,
\* a string without a dash, and a string with an empty component.
C33_IsValidIdAcceptsTwoOrMoreComponents ==
    \A r \in Slots :
        AppliedIsValidId(r)
            => (RejectedAsInvalidId(r) <=> ~Recognized("js", inv[r].event.body.id.v))

\* the half of it that the code keeps: what isValidId accepts has at least two
\* non-empty dash-separated components
C33_AcceptedIsWellFormed ==
    \A r \in Slots :
        (AppliedIsValidId(r) /\ ~RejectedAsInvalidId(r))
            => Recognized("js", inv[r].event.body.id.v)

---------------------------------------------------------------------------
(* Specification: one setID call whose event is handled by the ingestion  *)
(* handler and whose response comes back to the client                    *)

InitTrip ==
    /\ storage = <<>>
    /\ inv = [r \in Slots |-> IdleInv]
    /\ localStorage \in
           {[works |-> TRUE, item |-> item] : item \in Optional({P1}, <<>>)}
    /\ impl \in {NewImpl("v1", TRUE), NewImpl("v2", TRUE)}
    /\ window \in ClientWindows
    /\ calls = [c \in {1} |-> IdleCall]
    /\ loader = Loader("none", "none")
    /\ page = NoReads

\* sendToBackend without its response.ok test: the body of any response is
\* taken for the answer (an error body has no segments)
FetchedFrom_NoOkCheck(response) ==
    Fetched("json", IF response.statusCode = 200
                    THEN Present(response.body.segments) ELSE Absent(<<>>))

\* what fetch gives sendToBackend for a response of the handler: a status that
\* is not 2xx, or the JSON body of the 200
FetchedFrom(response) ==
    IF response.statusCode = 200
    THEN Fetched("json", Present(response.body.segments))
    ELSE Fetched("status", Absent(<<>>))

\* the page calls setID
TripSetID ==
    /\ \E id \in ExplicitIds, segs \in PublisherSegmentLists, rand \in RandomParts :
           setID_Start(1, id, segs, rand)
    /\ UNCHANGED <<serverVars, loader, page>>
\* consent settles and the event is posted
TripConsent ==
    /\ \E now \in 1..MaxTs : setID_Consent(1, now)
    /\ UNCHANGED <<serverVars, loader, page>>
\* the posted event reaches a handler
TripReceiveTS ==
    /\ calls[1].pc = "backend"
    /\ handlerTS_Start(1, EventOf("POST", Present(PageUrl), calls[1].sent[1]))
    /\ UNCHANGED clientVars
TripReceiveJS ==
    /\ calls[1].pc = "backend"
    /\ handlerJS_Start(1, EventOf("POST", Present(PageUrl), calls[1].sent[1]))
    /\ UNCHANGED clientVars
\* the handler's response reaches sendToBackend
TripRespond ==
    /\ Done(1)
    /\ setID_Backend(1, FetchedFrom(inv[1].response))
    /\ UNCHANGED <<serverVars, loader, page>>

NextTrip ==
    \/ TripSetID
    \/ TripConsent
    \/ TripReceiveTS
    \/ TripReceiveJS
    \/ SegmentsTS
    \/ SegmentsJS
    \/ PutEventTS
    \/ PutMappingTS
    \/ PutEventJS
    \/ PutMappingJS
    \/ TripRespond

SpecTrip == InitTrip /\ [][NextTrip]_vars

\* call c was given no identifier and found none in the store: its identifier
\* is freshly generated
FreshlyGenerated(c) ==
    /\ calls[c].pc # "idle"
    /\ ~Supplied(calls[c].id)
    /\ ~Supplied(calls[c].storedId)

\* C34 (as stated): the identity event that setID builds for a freshly
\* generated identifier passes the ingestion handler's identifier format
\* check: it is not rejected with 400 'Invalid ID format'.
C34_GeneratedIdPassesFormatCheck ==
    \A c \in DOMAIN calls :
        (FreshlyGenerated(c) /\ inv[1].pc # "idle" /\ inv[1].event.body.id.v = calls[c].useId)
            => ~RejectedAsInvalidId(1)

\* the JavaScript handler has turned away the event of an identifier generated
\* with a random part of uuid form
C34_UuidRejectedByIsValidId ==
    /\ FreshlyGenerated(1)
    /\ calls[1].useId = <<"publisher", "-", "1b9d6bcd", "-", "bbfd", "-", "4b2d">>
    /\ inv[1].variant = "js"
    /\ RejectedAsInvalidId(1)

\* C35: (second client variant) when consent is absent or its resolution
\* fails, the event setID sends carries consentString = ""; the ingestion
\* handler answers that event with 400 and writes nothing; the client takes the
\* answer for a backend failure (the segment set becomes publisherSegments if
\* they were passed and is unchanged otherwise, no "segments ready" is
\* emitted) and setID still returns the identifier.
C35_NoConsentEventIsRejectedAndSurvived ==
    [][(impl.variant = "v2" /\ ConsentFailure) =>
          /\ ConsentEnds(1) =>
                /\ Sends(1)
                /\ SentNow(1).consentString = Present(<<>>)
          /\ inv'[1].pc # "idle" =>
                /\ inv'[1].pc = "done"
                /\ inv'[1].response.statusCode = 400
                /\ inv'[1].log = <<>>
                /\ storage' = <<>>
          /\ (calls[1].pc = "backend" /\ calls'[1].pc # "backend") =>
                /\ calls'[1].pc = "returned"
                /\ calls'[1].fetched = "status"
                /\ calls'[1].result = Present(calls[1].useId)
                /\ calls'[1].events = calls[1].events
                /\ impl'.segments = IF calls[1].publisherSegments.has
                                    THEN calls[1].publisherSegments.v
                                    ELSE impl.segments
      ]_vars

\* on a page without consent the call has returned its identifier after the
\* handler's 400, with the publisher's segment as the segment set
C35_Witness ==
    /\ impl.variant = "v2" /\ ConsentFailure
    /\ calls[1].pc = "returned"
    /\ calls[1].sent[1].consentString = Present(<<>>)
    /\ Done(1) /\ StatusOf(1) = 400 /\ LogOf(1) = <<>> /\ storage = <<>>
    /\ calls[1].result = Present(calls[1].useId)
    /\ calls[1].publisherSegments = Present(<< <<"Pub", "-", "Seg">> >>)
    /\ impl.segments = << <<"Pub", "-", "Seg">> >>

---------------------------------------------------------------------------
(* Overlapping calls *)

\* the calls that have been started
StartedCalls == {c \in DOMAIN calls : calls[c].pc # "idle"}

\* the started calls that found no identifier in the store
GeneratingCalls == {c \in StartedCalls : ~Supplied(calls[c].storedId)}

\* C36: with a functioning store that was empty at the first call, setID()
\* calls without arguments, overlapping or not, all resolve and return the same
\* identifier: exactly one of them generated an identifier, and the store
\* holds it.
C36_OverlappingCallsShareOneIdentifier ==
    (/\ localStorage.works
     /\ GeneratingCalls # {}
     /\ \A c \in StartedCalls : ~calls[c].id.has)
    => /\ Cardinality(GeneratingCalls) = 1
       /\ \A c, d \in StartedCalls : calls[c].useId = calls[d].useId
       /\ \A c \in StartedCalls :
             /\ Generated(calls[c].useId)
             /\ localStorage.item = Present(calls[c].useId)
             /\ calls[c].pc = "returned" => calls[c].result = Present(calls[c].useId)

\* two calls without arguments overlap (both are suspended, the second having
\* started before the first sent its event) on a store that was empty
C36_Witness ==
    /\ localStorage.works
    /\ DOMAIN calls = {1, 2}
    /\ ~calls[1].id.has /\ ~calls[2].id.has
    /\ calls[1].pc = "consent" /\ calls[2].pc = "consent"
    /\ ~calls[1].storedId.has
    /\ calls[2].storedId = Present(calls[1].useId)
    /\ calls[2].useId = calls[1].useId

\* both of them have returned
C36_BothReturned ==
    /\ localStorage.works
    /\ ~calls[1].id.has /\ ~calls[2].id.has
    /\ ~calls[1].storedId.has
    /\ calls[1].pc = "returned" /\ calls[2].pc = "returned"
    /\ calls[1].result = calls[2].result

\* no setID call is in progress
Quiescent == \A c \in DOMAIN calls : calls[c].pc \in {"idle", "returned", "rejected"}

\* C37 (as stated): a clearID() issued while a setID call is suspended is not
\* undone by that call.  Once the call has completed getSegments() is still []
\* and getID() still absent: whenever no operation is in progress, an empty
\* (functioning) store implies an empty in-memory segment set.
C37_ClearedStoreImpliesNoSegments ==
    (Quiescent /\ localStorage.works /\ ~getID(localStorage).has)
        => getSegments(impl).v = <<>>

\* the half of it that the code keeps: a suspended call that resumes writes
\* nothing to the store, so the identifier stays cleared
C37_ResumedCallNeverStores ==
    [][(\E c \in DOMAIN calls :
           calls[c].pc \in {"consent", "backend"} /\ calls'[c].pc # calls[c].pc)
       => localStorage' = localStorage]_vars

---------------------------------------------------------------------------
(* Event records and mapping records *)

\* the keys of the writes that invocation r issued at a call site
KeysWritten(r, site) == {LogOf(r)[i].key : i \in PutsAt(r, site)}

\* C38 (as stated): event records are never overwritten by a succession-mapping
\* write: for all requests the handler accepts, the storage key of any mapping
\* record differs from the storage key of every event record.
C38_MappingKeysDifferFromEventKeys ==
    \A r1, r2 \in DOMAIN inv :
        KeysWritten(r1, "mapping") \cap KeysWritten(r2, "event") = {}

\* the same for requests whose previousId is itself a well-formed identifier
\* (no "/" in it)
C38_WellFormedPreviousIdKeepsKeysApart ==
    \A r1, r2 \in DOMAIN inv :
        (\A i \in 1..Len(inv[r1].event.body.previousId.v) :
              inv[r1].event.body.previousId.v[i] # "/")
        => KeysWritten(r1, "mapping") \cap KeysWritten(r2, "event") = {}

\* C39: within one request the succession mapping is written only after the
\* write of the event record has succeeded: a request that is at, or past, its
\* mapping write has earlier in its log a successful event write, whose record
\* is of the mapping's new identifier at the mapping's timestamp.
C39_MappingWrittenAfterEventStored ==
    \A r \in DOMAIN inv :
        LET MappingRow(i) == LogOf(r)[i].body.row
            StoredEventBefore(n, newId, ts) ==
                \E j \in PutsAt(r, "event") :
                    /\ j < n
                    /\ LogOf(r)[j].ok
                    /\ LogOf(r)[j].body.header = EventHeader
                    /\ LogOf(r)[j].body.row[1] = newId
                    /\ LogOf(r)[j].body.row[2] = ts
        IN  /\ \A i \in PutsAt(r, "mapping") :
                  StoredEventBefore(i, MappingRow(i)[2], MappingRow(i)[3])
            /\ inv[r].pc = "putMapping" =>
                  StoredEventBefore(Len(LogOf(r)) + 1, inv[r].event.body.id.v,
                                    <<ToString(inv[r].event.body.timestamp.v)>>)

\* a request answered 200 wrote its event record and then the mapping record
\* that names publisher-2 as the old identifier
C39_Witness ==
    \E r \in DOMAIN inv :
        /\ Done(r) /\ StatusOf(r) = 200
        /\ Len(LogOf(r)) = 3
        /\ LogOf(r)[2].site = "event" /\ LogOf(r)[2].ok
        /\ LogOf(r)[3].site = "mapping" /\ LogOf(r)[3].ok
        /\ LogOf(r)[3].body.row[1] = P2
        /\ LogOf(r)[3].body.row[2] = LogOf(r)[2].body.row[1]
        /\ LogOf(r)[3].key \in DOMAIN storage

---------------------------------------------------------------------------
(* What the response's segment list depends on *)

\* two events that differ at most in publisherSegments and previousId
SameButDeclared(e1, e2) ==
    /\ e1.httpMethod = e2.httpMethod
    /\ e1.origin = e2.origin
    /\ [e1.body EXCEPT !.publisherSegments = Absent(<<>>), !.previousId = Absent(<<>>)]
           = [e2.body EXCEPT !.publisherSegments = Absent(<<>>),
                             !.previousId = Absent(<<>>)]

\* the publisherSegments cell of the event row a request wrote
DeclaredCell(r) == EventWrite(r).body.row[7]

\* C40: the segment list of the response is determined by the segment source
\* and the handler's time.  Two valid requests that differ only in
\* publisherSegments or previousId, handled by the same handler against the
\* same source at the same time, resolve the same list and, when both are
\* answered 200, are answered the same list; the declared segments are in the
\* event row that was written and not in the answer.
C40_ResponseSegmentsIndependentOfDeclared ==
    \A r1, r2 \in DOMAIN inv :
        (/\ Resolved(r1) /\ Resolved(r2)
         /\ inv[r1].variant = inv[r2].variant
         /\ inv[r1].src = inv[r2].src
         /\ inv[r1].now = inv[r2].now
         /\ SameButDeclared(inv[r1].event, inv[r2].event))
        => /\ inv[r1].validSegments = inv[r2].validSegments
           /\ (Done(r1) /\ Done(r2) /\ StatusOf(r1) = 200 /\ StatusOf(r2) = 200)
                 => inv[r1].response.body.segments = inv[r2].response.body.segments
           /\ (WroteEvent(r1) /\ inv[r1].event.body.publisherSegments.has)
                 => /\ DeclaredCell(r1) = <<"seg1", "|", "seg2">>
                    /\ (Done(r1) /\ StatusOf(r1) = 200)
                          => \A i \in 1..Len(inv[r1].response.body.segments) :
                                 inv[r1].response.body.segments[i]
                                     \notin {<<"seg1">>, <<"seg2">>}

\* two requests answered 200 against the same table, one declaring segments
\* and a previousId and the other neither, both answered [segA]
C40_Witness ==
    /\ 1 \in DOMAIN inv /\ 2 \in DOMAIN inv
    /\ Done(1) /\ Done(2) /\ StatusOf(1) = 200 /\ StatusOf(2) = 200
    /\ inv[1].variant = inv[2].variant
    /\ inv[1].src = inv[2].src /\ inv[1].src.kind = "table"
    /\ SameButDeclared(inv[1].event, inv[2].event)
    /\ inv[1].event.body.publisherSegments.has
    /\ inv[1].event.body.previousId.has
    /\ ~inv[2].event.body.publisherSegments.has
    /\ ~inv[2].event.body.previousId.has
    /\ inv[1].response.body.segments = << <<"segA">> >>
    /\ inv[2].response.body.segments = << <<"segA">> >>
    /\ DeclaredCell(1) = <<"seg1", "|", "seg2">>

====
